---- MODULE Spec2Model ----
(***************************************************************************)
(* A model of the tech-news scrapers: asia-scraper.py, euro-scraper.py,    *)
(* us-scraper.py and scrape-articles.py.  The four scripts share one       *)
(* pipeline (link discovery, article extraction, retry, persistence,       *)
(* report); `variant` selects the script where they differ.  The           *)
(* clustering tool, article-clustering-tool.py, is modelled after them.    *)
(*                                                                         *)
(* Python strings on which the code computes (URLs, titles, contents) are  *)
(* sequences of one-character strings, so that startswith, endswith,       *)
(* strip, join, len and the domain regex are computed as the code computes *)
(* them.  A value that may be None is a sequence of length 0 (None) or 1.  *)
(***************************************************************************)
EXTENDS Integers, Sequences, FiniteSets, TLC

VARIABLES
    cfg,            \* the scraper object: variant, retry_attempts, sources
    pc,             \* position of run()
    si,             \* index of the source of the outer loop (1-based)
    attempt,        \* the retry loops' `attempt` (0-based)
    article_links,  \* run()'s local article_links: <<>> unassigned, <<links>> assigned
    li,             \* index of the link of the article loop (1-based)
    all_articles,   \* run()'s accumulator
    file,           \* the collection file at output_file
    report_file,    \* the report file: <<>> absent, <<report>>, <<NotJson>> truncated
    articles_dir,   \* us-scraper: the files of articles_dir, in creation order
    loop,           \* bookkeeping of the retry loop in progress
    last_loop,      \* bookkeeping of the retry loop that ended last
    proc,           \* the process: epoch, how it was killed, what was on disk then
    call_in,        \* input of a single call of get_article_links / scrape_article
    call_out        \* its result: <<>> not called yet, <<result>> returned

vars == <<cfg, pc, si, attempt, article_links, li, all_articles, file,
          report_file, articles_dir, loop, last_loop, proc, call_in, call_out>>

run_vars == <<cfg, pc, si, attempt, article_links, li, all_articles, file,
              report_file, articles_dir, loop, last_loop, proc>>

-----------------------------------------------------------------------------
(* Strings *)

None == <<>>

Some(x) == <<x>>

\* Python truthiness of an optional string: None and "" are falsy.
Truthy(opt) == opt # None /\ opt[1] # <<>>

StartsWith(s, p) == Len(s) >= Len(p) /\ SubSeq(s, 1, Len(p)) = p

EndsWith(s, p) == Len(s) >= Len(p) /\ SubSeq(s, Len(s) - Len(p) + 1, Len(s)) = p

RECURSIVE LStripChar(_, _)
\* str.lstrip(c) for a one-character c
LStripChar(s, c) ==
    IF s # <<>> /\ s[1] = c THEN LStripChar(Tail(s), c) ELSE s

\* A text is a sequence of characters.  An ASCII character is the string that
\* holds it; a character outside ASCII is the string that names its code point,
\* "U+" and four hexadecimal digits ("U+3000" is the ideographic space), so that
\* a text is read the same way under every character encoding.
\*
\* the characters str.strip() removes, the 29 for which str.isspace() holds: tab,
\* line feed, vertical tab, form feed, carriage return, U+001C..U+001F, space,
\* U+0085, U+00A0, U+1680, U+2000..U+200A, U+2028, U+2029, U+202F, U+205F, U+3000
Whitespace ==
    {"\t", "\n", "", "\f", "\r", "", "", "", "", " ",
     "U+0085", "U+00A0", "U+1680",
     "U+2000", "U+2001", "U+2002", "U+2003", "U+2004", "U+2005", "U+2006",
     "U+2007", "U+2008", "U+2009", "U+200A",
     "U+2028", "U+2029", "U+202F", "U+205F", "U+3000"}

RECURSIVE LStrip(_)
LStrip(s) == IF s # <<>> /\ s[1] \in Whitespace THEN LStrip(Tail(s)) ELSE s

RECURSIVE RStrip(_)
RStrip(s) ==
    IF s # <<>> /\ s[Len(s)] \in Whitespace
    THEN RStrip(SubSeq(s, 1, Len(s) - 1))
    ELSE s

\* str.strip()
Strip(s) == RStrip(LStrip(s))

RECURSIVE Join(_, _)
\* sep.join(parts)
Join(sep, parts) ==
    IF parts = <<>> THEN <<>>
    ELSE IF Len(parts) = 1 THEN parts[1]
    ELSE parts[1] \o sep \o Join(sep, Tail(parts))

RECURSIVE Concat(_)
Concat(parts) == IF parts = <<>> THEN <<>> ELSE parts[1] \o Concat(Tail(parts))

RECURSIVE Replace(_, _, _)
\* s.replace(old, new): every occurrence of old, left to right, not overlapping
Replace(s, old, new) ==
    IF s = <<>> THEN <<>>
    ELSE IF StartsWith(s, old)
         THEN new \o Replace(SubSeq(s, Len(old) + 1, Len(s)), old, new)
         ELSE <<s[1]>> \o Replace(Tail(s), old, new)

TitleNotFound ==
    <<"T", "i", "t", "l", "e", " ", "n", "o", "t", " ", "f", "o", "u", "n", "d">>

ContentNotFound ==
    <<"C", "o", "n", "t", "e", "n", "t", " ", "n", "o", "t", " ", "f", "o", "u", "n", "d">>

AuthorNotFound ==
    <<"A", "u", "t", "h", "o", "r", " ", "n", "o", "t", " ", "f", "o", "u", "n", "d">>

Https == <<"h", "t", "t", "p", "s", ":", "/", "/">>

Http == <<"h", "t", "t", "p", ":", "/", "/">>

HttpPrefix == <<"h", "t", "t", "p">>

-----------------------------------------------------------------------------
(* The scripts and their source tables *)

Variants == {"asia", "euro", "us", "articles"}

\* The scripts that keep one collection file (the us script keeps one file per article).
SingleFile == {"asia", "euro", "articles"}

\* self.sources of AsiaNewsScraper.__init__
AsiaSources == <<
    [name |-> "Tech in Asia", category |-> "technology", region |-> "asia",
     country |-> "singapore",
     url |-> <<"h", "t", "t", "p", "s", ":", "/", "/", "w", "w", "w", ".", "t", "e",
               "c", "h", "i", "n", "a", "s", "i", "a", ".", "c", "o", "m", "/">>],
    [name |-> "South China Morning Post Tech", category |-> "technology", region |-> "asia",
     country |-> "hong_kong",
     url |-> <<"h", "t", "t", "p", "s", ":", "/", "/", "w", "w", "w", ".", "s", "c",
               "m", "p", ".", "c", "o", "m", "/", "t", "e", "c", "h">>],
    [name |-> "Nikkei Asia Tech", category |-> "technology", region |-> "asia",
     country |-> "japan",
     url |-> <<"h", "t", "t", "p", "s", ":", "/", "/", "a", "s", "i", "a", ".", "n",
               "i", "k", "k", "e", "i", ".", "c", "o", "m", "/", "B", "u", "s", "i",
               "n", "e", "s", "s", "/", "T", "e", "c", "h", "n", "o", "l", "o", "g",
               "y">>],
    [name |-> "The Straits Times Tech", category |-> "technology", region |-> "asia",
     country |-> "singapore",
     url |-> <<"h", "t", "t", "p", "s", ":", "/", "/", "w", "w", "w", ".", "s", "t",
               "r", "a", "i", "t", "s", "t", "i", "m", "e", "s", ".", "c", "o", "m",
               "/", "t", "e", "c", "h">>],
    [name |-> "Asia Times", category |-> "technology", region |-> "asia",
     country |-> "hong_kong",
     url |-> <<"h", "t", "t", "p", "s", ":", "/", "/", "a", "s", "i", "a", "t", "i",
               "m", "e", "s", ".", "c", "o", "m", "/", "c", "a", "t", "e", "g", "o",
               "r", "y", "/", "t", "e", "c", "h", "n", "o", "l", "o", "g", "y", "/">>],
    [name |-> "The Japan Times Tech", category |-> "technology", region |-> "asia",
     country |-> "japan",
     url |-> <<"h", "t", "t", "p", "s", ":", "/", "/", "w", "w", "w", ".", "j", "a",
               "p", "a", "n", "t", "i", "m", "e", "s", ".", "c", "o", ".", "j", "p",
               "/", "n", "e", "w", "s", "/", "b", "u", "s", "i", "n", "e", "s", "s",
               "/", "t", "e", "c", "h", "/">>],
    [name |-> "CNA Tech", category |-> "technology", region |-> "asia",
     country |-> "singapore",
     url |-> <<"h", "t", "t", "p", "s", ":", "/", "/", "w", "w", "w", ".", "c", "h",
               "a", "n", "n", "e", "l", "n", "e", "w", "s", "a", "s", "i", "a", ".",
               "c", "o", "m", "/", "t", "e", "c", "h", "n", "o", "l", "o", "g", "y">>],
    [name |-> "China Daily Tech", category |-> "technology", region |-> "asia",
     country |-> "china",
     url |-> <<"h", "t", "t", "p", "s", ":", "/", "/", "w", "w", "w", ".", "c", "h",
               "i", "n", "a", "d", "a", "i", "l", "y", ".", "c", "o", "m", ".", "c",
               "n", "/", "b", "u", "s", "i", "n", "e", "s", "s", "/", "t", "e", "c",
               "h">>],
    [name |-> "The Economic Times Tech", category |-> "technology", region |-> "asia",
     country |-> "india",
     url |-> <<"h", "t", "t", "p", "s", ":", "/", "/", "e", "c", "o", "n", "o", "m",
               "i", "c", "t", "i", "m", "e", "s", ".", "i", "n", "d", "i", "a", "t",
               "i", "m", "e", "s", ".", "c", "o", "m", "/", "t", "e", "c", "h">>],
    [name |-> "The Korea Herald Tech", category |-> "technology", region |-> "asia",
     country |-> "south_korea",
     url |-> <<"h", "t", "t", "p", ":", "/", "/", "w", "w", "w", ".", "k", "o", "r",
               "e", "a", "h", "e", "r", "a", "l", "d", ".", "c", "o", "m", "/", "l",
               "i", "s", "t", ".", "p", "h", "p", "?", "c", "t", "=", "0", "2", "0",
               "2", "0", "6", "0", "0", "0", "0", "0", "0">>] >>

\* self.sources of EuropeNewsScraper.__init__
EuroSources == <<
    [name |-> "The Register", category |-> "technology", region |-> "europe",
     country |-> "uk",
     url |-> <<"h", "t", "t", "p", "s", ":", "/", "/", "w", "w", "w", ".", "t", "h",
               "e", "r", "e", "g", "i", "s", "t", "e", "r", ".", "c", "o", "m", "/">>],
    [name |-> "El País Tecnología", category |-> "technology", region |-> "europe",
     country |-> "spain",
     url |-> <<"h", "t", "t", "p", "s", ":", "/", "/", "e", "l", "p", "a", "i", "s",
               ".", "c", "o", "m", "/", "t", "e", "c", "n", "o", "l", "o", "g", "i",
               "a", "/">>],
    [name |-> "Financial Times Tech", category |-> "business", region |-> "europe",
     country |-> "uk",
     url |-> <<"h", "t", "t", "p", "s", ":", "/", "/", "w", "w", "w", ".", "f", "t",
               ".", "c", "o", "m", "/", "t", "e", "c", "h", "n", "o", "l", "o", "g",
               "y">>] >>

\* self.sources of USNewsScraper.__init__
USSources == <<
    [name |-> "CNBC", category |-> "technology", region |-> "north_america",
     url |-> <<"h", "t", "t", "p", "s", ":", "/", "/", "w", "w", "w", ".", "c", "n",
               "b", "c", ".", "c", "o", "m", "/", "t", "e", "c", "h", "n", "o", "l",
               "o", "g", "y", "/">>],
    [name |-> "VentureBeat", category |-> "technology", region |-> "north_america",
     url |-> <<"h", "t", "t", "p", "s", ":", "/", "/", "v", "e", "n", "t", "u", "r",
               "e", "b", "e", "a", "t", ".", "c", "o", "m", "/">>],
    [name |-> "Business Insider", category |-> "business", region |-> "north_america",
     url |-> <<"h", "t", "t", "p", "s", ":", "/", "/", "w", "w", "w", ".", "b", "u",
               "s", "i", "n", "e", "s", "s", "i", "n", "s", "i", "d", "e", "r", ".",
               "c", "o", "m", "/", "t", "e", "c", "h">>],
    [name |-> "MarketWatch", category |-> "investing", region |-> "north_america",
     url |-> <<"h", "t", "t", "p", "s", ":", "/", "/", "w", "w", "w", ".", "m", "a",
               "r", "k", "e", "t", "w", "a", "t", "c", "h", ".", "c", "o", "m", "/",
               "i", "n", "v", "e", "s", "t", "i", "n", "g">>] >>

\* self.sources of ArticleScraper.__init__
ArticleSources == <<
    [name |-> "TechCrunch", category |-> "technology", region |-> "north_america",
     url |-> <<"h", "t", "t", "p", "s", ":", "/", "/", "t", "e", "c", "h", "c", "r",
               "u", "n", "c", "h", ".", "c", "o", "m", "/">>],
    [name |-> "CNBC", category |-> "investing", region |-> "north_america",
     url |-> <<"h", "t", "t", "p", "s", ":", "/", "/", "w", "w", "w", ".", "c", "n",
               "b", "c", ".", "c", "o", "m", "/", "t", "e", "c", "h", "n", "o", "l",
               "o", "g", "y", "/">>],
    [name |-> "Ars Technica", category |-> "technology", region |-> "north_america",
     url |-> <<"h", "t", "t", "p", "s", ":", "/", "/", "a", "r", "s", "t", "e", "c",
               "h", "n", "i", "c", "a", ".", "c", "o", "m", "/">>],
    [name |-> "VentureBeat", category |-> "technology", region |-> "north_america",
     url |-> <<"h", "t", "t", "p", "s", ":", "/", "/", "v", "e", "n", "t", "u", "r",
               "e", "b", "e", "a", "t", ".", "c", "o", "m", "/">>],
    [name |-> "Business Insider", category |-> "business", region |-> "north_america",
     url |-> <<"h", "t", "t", "p", "s", ":", "/", "/", "w", "w", "w", ".", "b", "u",
               "s", "i", "n", "e", "s", "s", "i", "n", "s", "i", "d", "e", "r", ".",
               "c", "o", "m", "/", "t", "e", "c", "h">>],
    [name |-> "MarketWatch", category |-> "investing", region |-> "north_america",
     url |-> <<"h", "t", "t", "p", "s", ":", "/", "/", "w", "w", "w", ".", "m", "a",
               "r", "k", "e", "t", "w", "a", "t", "c", "h", ".", "c", "o", "m", "/",
               "i", "n", "v", "e", "s", "t", "i", "n", "g">>],
    [name |-> "The Register", category |-> "technology", region |-> "europe",
     url |-> <<"h", "t", "t", "p", "s", ":", "/", "/", "w", "w", "w", ".", "t", "h",
               "e", "r", "e", "g", "i", "s", "t", "e", "r", ".", "c", "o", "m", "/">>],
    [name |-> "The Guardian Tech", category |-> "technology", region |-> "europe",
     url |-> <<"h", "t", "t", "p", "s", ":", "/", "/", "w", "w", "w", ".", "t", "h",
               "e", "g", "u", "a", "r", "d", "i", "a", "n", ".", "c", "o", "m", "/",
               "t", "e", "c", "h", "n", "o", "l", "o", "g", "y">>],
    [name |-> "BBC Technology", category |-> "technology", region |-> "europe",
     url |-> <<"h", "t", "t", "p", "s", ":", "/", "/", "w", "w", "w", ".", "b", "b",
               "c", ".", "c", "o", "m", "/", "n", "e", "w", "s", "/", "t", "e", "c",
               "h", "n", "o", "l", "o", "g", "y">>],
    [name |-> "Handelsblatt", category |-> "technology", region |-> "europe",
     url |-> <<"h", "t", "t", "p", "s", ":", "/", "/", "w", "w", "w", ".", "h", "a",
               "n", "d", "e", "l", "s", "b", "l", "a", "t", "t", ".", "c", "o", "m",
               "/", "t", "e", "c", "h", "n", "i", "k", "/">>],
    [name |-> "Les Echos", category |-> "business", region |-> "europe",
     url |-> <<"h", "t", "t", "p", "s", ":", "/", "/", "w", "w", "w", ".", "l", "e",
               "s", "e", "c", "h", "o", "s", ".", "f", "r", "/", "t", "e", "c", "h",
               "-", "m", "e", "d", "i", "a", "s">>],
    [name |-> "El País Tecnología", category |-> "technology", region |-> "europe",
     url |-> <<"h", "t", "t", "p", "s", ":", "/", "/", "e", "l", "p", "a", "i", "s",
               ".", "c", "o", "m", "/", "t", "e", "c", "n", "o", "l", "o", "g", "i",
               "a", "/">>],
    [name |-> "Börse Online", category |-> "investing", region |-> "europe",
     url |-> <<"h", "t", "t", "p", "s", ":", "/", "/", "w", "w", "w", ".", "b", "o",
               "e", "r", "s", "e", "-", "o", "n", "l", "i", "n", "e", ".", "d", "e",
               "/", "n", "a", "c", "h", "r", "i", "c", "h", "t", "e", "n", "/", "t",
               "h", "e", "m", "e", "n", "/", "t", "e", "c", "h", "n", "o", "l", "o",
               "g", "i", "e">>],
    [name |-> "Nikkei Asia", category |-> "technology", region |-> "asia",
     url |-> <<"h", "t", "t", "p", "s", ":", "/", "/", "a", "s", "i", "a", ".", "n",
               "i", "k", "k", "e", "i", ".", "c", "o", "m", "/", "B", "u", "s", "i",
               "n", "e", "s", "s", "/", "T", "e", "c", "h", "n", "o", "l", "o", "g",
               "y">>],
    [name |-> "South China Morning Post Tech", category |-> "technology", region |-> "asia",
     url |-> <<"h", "t", "t", "p", "s", ":", "/", "/", "w", "w", "w", ".", "s", "c",
               "m", "p", ".", "c", "o", "m", "/", "t", "e", "c", "h">>],
    [name |-> "The Economic Times Tech", category |-> "technology", region |-> "asia",
     url |-> <<"h", "t", "t", "p", "s", ":", "/", "/", "e", "c", "o", "n", "o", "m",
               "i", "c", "t", "i", "m", "e", "s", ".", "i", "n", "d", "i", "a", "t",
               "i", "m", "e", "s", ".", "c", "o", "m", "/", "t", "e", "c", "h">>],
    [name |-> "Tech in Asia", category |-> "technology", region |-> "asia",
     url |-> <<"h", "t", "t", "p", "s", ":", "/", "/", "w", "w", "w", ".", "t", "e",
               "c", "h", "i", "n", "a", "s", "i", "a", ".", "c", "o", "m", "/">>],
    [name |-> "Nikkan Kogyo", category |-> "technology", region |-> "asia",
     url |-> <<"h", "t", "t", "p", "s", ":", "/", "/", "w", "w", "w", ".", "n", "i",
               "k", "k", "a", "n", ".", "c", "o", ".", "j", "p", "/", "c", "a", "t",
               "e", "g", "o", "r", "y", "/", "a", "i">>],
    [name |-> "Nikkei Stock", category |-> "investing", region |-> "asia",
     url |-> <<"h", "t", "t", "p", "s", ":", "/", "/", "w", "w", "w", ".", "n", "i",
               "k", "k", "e", "i", ".", "c", "o", "m", "/", "m", "a", "r", "k", "e",
               "t", "s", "/", "k", "a", "b", "u", "/">>],
    [name |-> "The Business Times Singapore", category |-> "technology", region |-> "asia",
     url |-> <<"h", "t", "t", "p", "s", ":", "/", "/", "w", "w", "w", ".", "b", "u",
               "s", "i", "n", "e", "s", "s", "t", "i", "m", "e", "s", ".", "c", "o",
               "m", ".", "s", "g", "/", "t", "e", "c", "h", "n", "o", "l", "o", "g",
               "y">>],
    [name |-> "Shanghai Securities News", category |-> "investing", region |-> "asia",
     url |-> <<"h", "t", "t", "p", "s", ":", "/", "/", "w", "w", "w", ".", "c", "n",
               "s", "t", "o", "c", "k", ".", "c", "o", "m", "/", "v", "_", "t", "e",
               "c", "h", "n", "o", "l", "o", "g", "y", "/">>] >>

\* self.sources as __init__ leaves it
SourceTable(variant) ==
    CASE variant = "asia" -> AsiaSources
      [] variant = "euro" -> EuroSources
      [] variant = "us" -> USSources
      [] OTHER -> ArticleSources

-----------------------------------------------------------------------------
(* Link discovery: get_article_links *)

\* articles[:15]
MaxLinksPerSource == 15

Min(a, b) == IF a < b THEN a ELSE b

\* A homepage response: ok = FALSE is a request that raised (timeout, connection
\* error, non-2xx status); articles are the nodes soup.select(article_selector)
\* returned.  A node is described by what the three link methods read from it:
\*   a         href of article.find('a'): None when there is no anchor or the
\*             anchor has no href attribute
\*   headline  href of article.select_one('h2 a, h3 a, .headline a, .title a')
\*   self      href of the node itself when the node is an anchor
\* a loop over every node, the slice forgotten
ExaminedAll(articles) == articles

Examined(articles) == SubSeq(articles, 1, Min(MaxLinksPerSource, Len(articles)))

\* Methods 1..3: the first one that yields a non-empty href wins.
ResolveLink(node) ==
    IF Truthy(node.a) THEN node.a
    ELSE IF Truthy(node.headline) THEN node.headline
    ELSE IF Truthy(node.self) THEN node.self
    ELSE None

\* length of the match of https?://[^/]+ at the start of url, 0 when no match
RECURSIVE HostEnd(_, _)
HostEnd(url, i) ==
    IF i <= Len(url) /\ url[i] # "/" THEN HostEnd(url, i + 1) ELSE i - 1

DomainLen(url) ==
    LET scheme == IF StartsWith(url, Https) THEN Len(Https)
                  ELSE IF StartsWith(url, Http) THEN Len(Http)
                  ELSE 0
        last == HostEnd(url, scheme + 1)
    IN  IF scheme > 0 /\ last > scheme THEN last ELSE 0

\* re.match(r'(https?://[^/]+)', url).group(1)
Domain(url) == SubSeq(url, 1, DomainLen(url))

\* The second branch of "Handle relative URLs"; scrape-articles.py has only the first.
JoinsSchemeless(variant) == variant # "articles"

NormalizeLink(variant, link, url) ==
    IF StartsWith(link, <<"/">>) THEN Domain(url) \o link
    ELSE IF JoinsSchemeless(variant) /\ ~StartsWith(link, HttpPrefix)
         THEN Domain(url) \o <<"/">> \o LStripChar(link, "/")
         ELSE link

\* re.match(...) is None when the homepage URL has no scheme and host: .group raises
NormalizeRaises(variant, link, url) ==
    /\ DomainLen(url) = 0
    /\ \/ StartsWith(link, <<"/">>)
       \/ JoinsSchemeless(variant) /\ ~StartsWith(link, HttpPrefix)

InList(x, xs) == \E i \in 1..Len(xs) : xs[i] = x

\* a membership test that looks at the last collected link only
NotLastCollected(link, links) == links = <<>> \/ links[Len(links)] # link

\* "link not in links"
NotYetCollected(link, links) == ~InList(link, links)

\* "and not link.endswith('#')"; scrape-articles.py has no such test.
RejectsFragment(variant) == variant # "articles"

KeepLink(variant, link, links) ==
    /\ NotYetCollected(link, links)
    /\ RejectsFragment(variant) => ~EndsWith(link, <<"#">>)

RECURSIVE CollectLinks(_, _, _, _)
\* the for loop over articles[:15], from the nodes still to examine
CollectLinks(variant, url, nodes, links) ==
    IF nodes = <<>> THEN links
    ELSE LET found == ResolveLink(nodes[1])
             link == NormalizeLink(variant, found[1], url)
         IN  IF ~Truthy(found) THEN CollectLinks(variant, url, Tail(nodes), links)
             ELSE IF KeepLink(variant, link, links)
                  THEN CollectLinks(variant, url, Tail(nodes), Append(links, link))
                  ELSE CollectLinks(variant, url, Tail(nodes), links)

LinksRaise(variant, url, nodes) ==
    \E i \in 1..Len(nodes) :
        /\ Truthy(ResolveLink(nodes[i]))
        /\ NormalizeRaises(variant, ResolveLink(nodes[i])[1], url)

\* get_article_links(source), given what the homepage request returned
get_article_links(variant, source, response) ==
    IF ~response.ok \/ LinksRaise(variant, source.url, Examined(response.articles))
    THEN <<>>
    ELSE CollectLinks(variant, source.url, Examined(response.articles), <<>>)

-----------------------------------------------------------------------------
(* Article extraction: scrape_article *)

\* An article response: ok = FALSE is a request that raised.  Otherwise the page is
\* described by what the selectors return: the get_text() of the node matched by
\* the source's selector and by the generic fallback selector (None: no match).
\* A content node is the sequence of its text children in document order, each
\* [p |-> is a paragraph, text |-> its get_text()].

\* content.find_all('p'), each stripped
ParagraphTexts(node) ==
    LET ps == SelectSeq(node, LAMBDA c : c.p)
    IN  [i \in 1..Len(ps) |-> Strip(ps[i].text)]

\* content.get_text()
RawText(node) == Concat([i \in 1..Len(node) |-> node[i].text])

\* select_one(source selector), then select_one(generic fallback)
TwoTier(specific, generic) == IF specific # None THEN specific ELSE generic

TitleText(title) == IF title # None THEN Strip(title[1]) ELSE TitleNotFound

\* an extraction that leaves the content empty when no container is found
ContentTextNoSentinel(content) ==
    IF content # None
    THEN LET joined == Join(<<" ">>, ParagraphTexts(content[1]))
         IN  IF joined = <<>> THEN Strip(RawText(content[1])) ELSE joined
    ELSE <<>>

\* "Extract paragraphs from the content"
ContentText(content) ==
    IF content # None
    THEN LET joined == Join(<<" ">>, ParagraphTexts(content[1]))
         IN  IF joined = <<>> THEN Strip(RawText(content[1])) ELSE joined
    ELSE ContentNotFound

\* date_text: the node's text, else today's date
DateText(date, now) == IF date # None THEN Strip(date[1]) ELSE now.date

AuthorText(author) == IF author # None THEN Strip(author[1]) ELSE AuthorNotFound

Description(meta_desc) == IF Truthy(meta_desc) THEN meta_desc[1] ELSE <<>>

\* a length that counts the sentinel as no content
ContentLengthOfFound(content_text) ==
    IF content_text = ContentNotFound THEN 0 ELSE Len(content_text)

\* 'content_length': len(content_text)
ContentLength(content_text) == Len(content_text)

\* source.get('country', default)
CountryOr(source, default) ==
    IF "country" \in DOMAIN source THEN source.country ELSE default

\* asia-scraper.py: "Detect language based on country"
AsiaLanguage(source) ==
    LET country == CountryOr(source, "None")
    IN  IF country = "japan" THEN "ja"
        ELSE IF country = "china" THEN "zh"
        ELSE IF country = "south_korea" THEN "ko"
        ELSE "en"

\* a language tag that is en for every country
EuroLanguageEnglish(source) == "en"

\* euro-scraper.py: the and/or chain of 'language'
EuroLanguage(source) ==
    IF CountryOr(source, "uk") = "uk" THEN "en"
    ELSE IF CountryOr(source, "") = "germany" THEN "de"
    ELSE IF CountryOr(source, "") = "france" THEN "fr"
    ELSE IF CountryOr(source, "") = "spain" THEN "es"
    ELSE "en"

\* the fields every script's article_data has
CommonFields(url, source, resp, now) ==
    LET content_text == ContentText(TwoTier(resp.content_sel, resp.content_generic))
    IN  [source |-> source.name,
         category |-> source.category,
         url |-> url,
         title |-> TitleText(TwoTier(resp.title_sel, resp.title_generic)),
         author |-> AuthorText(resp.author),
         description |-> Description(resp.meta_desc),
         content |-> content_text,
         date |-> DateText(TwoTier(resp.date_sel, resp.date_generic), now),
         content_length |-> ContentLength(content_text),
         scraped_at |-> now.stamp]

\* r extended with the fields of the record extra
Extend(r, extra) ==
    [k \in DOMAIN r \cup DOMAIN extra |-> IF k \in DOMAIN extra THEN extra[k] ELSE r[k]]

article_data(variant, url, source, resp, now) ==
    LET common == CommonFields(url, source, resp, now)
    IN  CASE variant = "asia" ->
               Extend(common, [region |-> source.region,
                               country |-> CountryOr(source, ""),
                               language |-> AsiaLanguage(source)])
          [] variant = "euro" ->
               Extend(common, [region |-> source.region,
                               country |-> CountryOr(source, ""),
                               language |-> EuroLanguage(source)])
          [] variant = "us" -> Extend(common, [region |-> source.region])
          [] OTHER -> common

\* scrape_article(url, source), given what the article request returned:
\* None after an exception, else the record
scrape_article(variant, url, source, resp, now) ==
    IF ~resp.ok THEN None ELSE Some(article_data(variant, url, source, resp, now))

-----------------------------------------------------------------------------
(* Inputs of the single-call specifications *)

\* nodes of a homepage beyond the cap of 15
ExtraNodes == 2

\* longest homepage: MaxLinksPerSource + ExtraNodes nodes
MaxDocLen == MaxLinksPerSource + ExtraNodes

\* homepages are read off the node pool with strides 1..MaxStride
MaxStride == 3

Digit(d) == <<"0", "1", "2", "3", "4", "5", "6", "7", "8", "9">>[d + 1]

\* decimal digits of i, 0 <= i < 100
Digits(i) == IF i < 10 THEN <<Digit(i)>> ELSE <<Digit(i \div 10), Digit(i % 10)>>

\* the href "/s/<i>"
StoryHref(i) == <<"/", "s", "/">> \o Digits(i)

Node(a, headline, self) == [a |-> a, headline |-> headline, self |-> self]

\* nodes with pairwise different hrefs, enough to exceed the cap
StoryNodes == [i \in 1..MaxDocLen |-> Node(Some(StoryHref(i)), None, None)]

SpecialNodes == <<
    \* no href on the first anchor, a headline anchor with a repeated href
    Node(None, Some(StoryHref(1)), None),
    \* an empty href on the first anchor, the node itself an anchor, no scheme
    Node(Some(<<>>), None, Some(<<"s", "t", "o", "r", "y", "/", "2">>)),
    \* an absolute href on another host
    Node(Some(<<"h", "t", "t", "p", "s", ":", "/", "/", "t", ".", "c", "o", "/", "a">>),
         None, None),
    \* bare fragments
    Node(Some(<<"#">>), None, None),
    Node(Some(<<"/", "p", "a", "g", "e", "#">>), None, None),
    \* no link at all
    Node(None, None, None),
    \* "s/1": the same page as "/s/1", written without the leading slash
    Node(Some(<<"s", "/", "1">>), None, None),
    \* a relative page name that begins with the letters http
    Node(Some(<<"h", "t", "t", "p", "-", "2">>), None, None),
    \* a protocol-relative href
    Node(Some(<<"/", "/", "c", "d", "n", ".", "i", "o", "/", "x">>), None, None) >>

NodePool == StoryNodes \o SpecialNodes

\* the homepage of n nodes read off the pool from offset b with stride a
Homepage(n, a, b) ==
    [ok |-> TRUE,
     articles |-> [i \in 1..n |-> NodePool[((a * (i - 1) + b) % Len(NodePool)) + 1]]]

FailedResponse == [ok |-> FALSE, articles |-> <<>>]

HomepageResponses ==
    {FailedResponse}
    \cup {Homepage(n, a, b) : n \in 0..MaxDocLen, a \in 1..MaxStride,
                              b \in 0..(Len(NodePool) - 1)}

\* the sources of single calls: the first MaxCallSources of each script's table
MaxCallSources == 10

\* a script and the index of one of these sources in its table
CallSources ==
    {c \in Variants \X (1..MaxCallSources) : c[2] <= Len(SourceTable(c[1]))}

\* a source descriptor no script holds: the scheme of its url is written in
\* capitals, so the pattern https?://[^/]+ does not match the url
HandMadeSource(variant) ==
    [SourceTable(variant)[1] EXCEPT
        !.name = "Hand made",
        !.url = <<"H", "T", "T", "P", "S", ":", "/", "/", "x", ".", "i", "o", "/">>]

LinkInputs ==
    {[fn |-> "get_article_links", variant |-> c[1], source |-> SourceTable(c[1])[c[2]],
      response |-> r] :
        c \in CallSources, r \in HomepageResponses}
    \cup {[fn |-> "get_article_links", variant |-> v, source |-> HandMadeSource(v),
           response |-> r] :
              v \in Variants, r \in HomepageResponses}

Para(text) == [p |-> TRUE, text |-> text]

Text(text) == [p |-> FALSE, text |-> text]

TitleNodes == {
    None,
    Some(<<"B", "i", "g">>),
    Some(<<"\n", "U+3000", "B", "i", "g", "\r", "U+2028">>),
    Some(<<>>),
    Some(TitleNotFound) }

ContentNodes == {
    None,
    Some(<<Para(<<"A", ".">>), Para(<<"U+00A0", "B", ".", "\r", "\n">>), Para(<<"C", ".">>)>>),
    Some(<<Text(<<" ", "r", "a", "w", " ">>)>>),
    Some(<<>>),
    Some(<<Para(<<>>), Text(<<"x">>)>>),
    Some(<<Para(<<>>), Para(<<" ">>), Text(<<"x">>)>>),
    Some(<<Text(<<"i", "n", "t", "r", "o">>), Para(<<"A", ".">>)>>),
    Some(<<Para(ContentNotFound)>>) }

GenericContentNodes == {None, Some(<<Para(<<"g", "e", "n">>)>>)}

Date1 == <<"2", "0", "2", "5", "-", "0", "1", "-", "3", "1">>

Date2 == <<"2", "0", "2", "5", "-", "0", "2", "-", "0", "1">>

FailedPage ==
    [ok |-> FALSE, title_sel |-> None, title_generic |-> None, content_sel |-> None,
     content_generic |-> None, date_sel |-> None, date_generic |-> None,
     author |-> None, meta_desc |-> None]

Pages ==
    [ok : {TRUE},
     title_sel : TitleNodes,
     title_generic : {None, Some(<<"G">>)},
     content_sel : ContentNodes,
     content_generic : GenericContentNodes,
     date_sel : {None, Some(<<" ", "M", "a", "y", " ", "1">>)},
     date_generic : {None},
     author : {None, Some(<<"A", "l", " ">>)},
     meta_desc : {None, Some(<<>>), Some(<<"m">>)}]
    \cup
    [ok : {TRUE},
     title_sel : {None},
     title_generic : {None},
     content_sel : {None, Some(<<Text(<<" ", "r", "a", "w", " ">>)>>)},
     content_generic : {None},
     date_sel : {None},
     date_generic : {None, Some(<<"J", "u", "n", "e">>)},
     author : {None},
     meta_desc : {None}]

ArticleInputs ==
    {[fn |-> "scrape_article", variant |-> c[1], source |-> SourceTable(c[1])[c[2]],
      url |-> Domain(SourceTable(c[1])[c[2]].url) \o StoryHref(1), response |-> r,
      now |-> [date |-> d, stamp |-> <<0, c[2], 1, 0>>]] :
        c \in CallSources, r \in Pages \cup {FailedPage}, d \in {Date1, Date2}}

\* the run() variables of a specification that only makes single calls
IdleRun ==
    /\ cfg = [variant |-> "asia", retry_attempts |-> 0, sources |-> <<>>,
              output_file |-> <<>>]
    /\ pc = "idle"
    /\ si = 0
    /\ attempt = 0
    /\ article_links = None
    /\ li = 0
    /\ all_articles = <<>>
    /\ file = [state |-> "absent", records |-> <<>>]
    /\ report_file = None
    /\ articles_dir = <<>>
    /\ loop = [kind |-> "none"]
    /\ last_loop = [kind |-> "none"]
    /\ proc = [epoch |-> 0, kill |-> "none", disk |-> <<>>]

InitLinks == call_in \in LinkInputs /\ call_out = None /\ IdleRun

\* One call of get_article_links, step by step; pc is the position in its body
\* and li counts the homepage requests issued.
\*
\* the head of the try block: session.get and raise_for_status.  A request that
\* raises (timeout, connection error, non-2xx status) leaves the try block.
RequestHomepage ==
    /\ call_in.fn = "get_article_links"
    /\ pc = "idle"
    /\ li' = li + 1
    /\ pc' = IF call_in.response.ok THEN "links_parse" ELSE "links_except"
    /\ UNCHANGED <<call_in, call_out, cfg, si, attempt, article_links, all_articles,
                   file, report_file, articles_dir, loop, last_loop, proc>>

\* the rest of the try block: the page is parsed and the loop over articles[:15]
\* collects the links, up to "return links"; an exception raised on the way
\* (.group of a pattern that did not match) leaves the try block with the links
\* collected so far lost
ParseHomepage ==
    /\ pc = "links_parse"
    /\ IF LinksRaise(call_in.variant, call_in.source.url,
                     Examined(call_in.response.articles))
       THEN pc' = "links_except" /\ UNCHANGED call_out
       ELSE /\ call_out' = Some(CollectLinks(call_in.variant, call_in.source.url,
                                             Examined(call_in.response.articles),
                                             <<>>))
            /\ pc' = "links_returned"
    /\ UNCHANGED <<call_in, cfg, si, attempt, article_links, li, all_articles, file,
                   report_file, articles_dir, loop, last_loop, proc>>

\* an except clause that goes back to the request once
ExceptLinksAsksAgain ==
    /\ pc = "links_except"
    /\ IF li < 2
       THEN pc' = "idle" /\ UNCHANGED call_out
       ELSE call_out' = Some(<<>>) /\ pc' = "links_returned"
    /\ UNCHANGED <<call_in, cfg, si, attempt, article_links, li, all_articles, file,
                   report_file, articles_dir, loop, last_loop, proc>>

\* "except Exception": the error is logged, "return []"
ExceptLinks ==
    /\ pc = "links_except"
    /\ call_out' = Some(<<>>)
    /\ pc' = "links_returned"
    /\ UNCHANGED <<call_in, cfg, si, attempt, article_links, li, all_articles, file,
                   report_file, articles_dir, loop, last_loop, proc>>

NextLinks == RequestHomepage \/ ParseHomepage \/ ExceptLinks

SpecLinks == InitLinks /\ [][NextLinks]_vars

InitArticle == call_in \in ArticleInputs /\ call_out = None /\ IdleRun

CallScrapeArticle ==
    /\ call_in.fn = "scrape_article"
    /\ call_out = None
    /\ call_out' = Some(scrape_article(call_in.variant, call_in.url, call_in.source,
                                       call_in.response, call_in.now))
    /\ UNCHANGED <<call_in, run_vars>>

NextArticle == CallScrapeArticle

SpecArticle == InitArticle /\ [][NextArticle]_vars

-----------------------------------------------------------------------------
(* Persistence and report *)

\* The collection file: state "absent" (never written), "json" (a complete JSON
\* array, `records`), "partial" (opened for writing and truncated, the dump not
\* completed: not a JSON document) or "report" (it holds a report).
AbsentFile == [state |-> "absent", records |-> <<>>]

JsonFile(articles) == [state |-> "json", records |-> articles]

PartialFile == [state |-> "partial", records |-> <<>>]

\* the collection file's path after a report was dumped to that same path: a JSON
\* object (the report, kept in report_file), no longer a list of records
ReportInFile == [state |-> "report", records |-> <<>>]

\* the content of a report file or of a file of articles_dir that open() truncated
\* and whose dump raised: no JSON document
NotJson == [state |-> "partial"]

\* What a call of save_to_json meets: "ok"; "open_failed", makedirs or open raised
\* and the file is untouched; "write_failed", the file was opened (truncated) and
\* the dump raised.  The exception is caught and logged in both cases.
SaveOutcomes == {"ok", "open_failed", "write_failed"}

\* the collection file after save_to_json(articles)
save_to_json(old, articles, outcome) ==
    CASE outcome = "ok" -> JsonFile(articles)
      [] outcome = "open_failed" -> old
      [] OTHER -> PartialFile

\* article.get(field, default).  The two fields the code reads by index,
\* article['source'] and article['category'], are read with it only in records
\* that hold them: see Indexable for the KeyError of the others.
Get(article, field, default) ==
    IF field \in DOMAIN article THEN article[field] ELSE default

\* the number of records of `articles` whose field (or its default) is value
CountField(articles, field, default, value) ==
    Cardinality({i \in 1..Len(articles) : Get(articles[i], field, default) = value})

RECURSIVE TotalContentLength(_)
\* total_content_length += article.get('content_length', 0)
TotalContentLength(articles) ==
    IF articles = <<>> THEN 0
    ELSE Get(articles[1], "content_length", 0) + TotalContentLength(Tail(articles))

FieldValues(articles, field, default) ==
    {Get(articles[i], field, default) : i \in 1..Len(articles)}

\* report["by_<field>"] built with .get(key, 0) + 1: a key per value that occurs
CountsByOccurring(articles, field, default, skip) ==
    [k \in FieldValues(articles, field, default) \ skip |->
        CountField(articles, field, default, k)]

\* every value that occurs gets a key, as by_source and by_country do it
CountsByFixedOrOccurring(articles, keys, field, default) ==
    [k \in keys \cup FieldValues(articles, field, default) |->
        CountField(articles, field, default, k)]

\* a table initialised with fixed keys, counting only those
CountsByFixed(articles, keys, field, default) ==
    [k \in keys |-> CountField(articles, field, default, k)]

ReportCategories(variant) ==
    IF variant = "asia" THEN {"technology", "business"}
    ELSE {"technology", "business", "investing"}

ReportLanguages(variant) ==
    IF variant = "asia" THEN {"en", "zh", "ja", "ko"} ELSE {"en", "de", "fr", "es"}

\* scrape-articles.py: get_source_region
get_source_region(sources, source_name) ==
    IF \E i \in 1..Len(sources) : sources[i].name = source_name
    THEN LET i == CHOOSE i \in 1..Len(sources) :
                      /\ sources[i].name = source_name
                      /\ \A j \in 1..(i - 1) : sources[j].name # source_name
         IN  IF "region" \in DOMAIN sources[i] THEN sources[i].region ELSE "unknown"
    ELSE "unknown"

\* scrape-articles.py: report["by_region"], counting get_source_region(source)
CountsByRegion(sources, articles) ==
    [k \in {"north_america", "europe", "asia"} |->
        Cardinality({i \in 1..Len(articles) :
                        get_source_region(sources, articles[i].source) = k})]

\* average_content_length: 0, or total / len(articles) kept as the pair <<total, len>>
AverageContentLength(articles) ==
    IF articles = <<>> THEN <<0, 1>>
    ELSE <<TotalContentLength(articles), Len(articles)>>

DotJson == <<".", "j", "s", "o", "n">>

\* the path generate_report writes: output_file.replace('.json', '_report.json'),
\* and in the us script os.path.join(output_dir, "scraping_report.json")
ReportPath(variant, output) ==
    IF variant = "us"
    THEN output \o <<"/", "s", "c", "r", "a", "p", "i", "n", "g", "_", "r", "e", "p",
                     "o", "r", "t">> \o DotJson
    ELSE Replace(output, DotJson, <<"_", "r", "e", "p", "o", "r", "t">> \o DotJson)

\* the report dict generate_report builds from `articles`, a collection whose
\* records all hold 'source' and 'category' (the counting loop raises otherwise)
Report(variant, sources, articles, now) ==
    LET common == [total_articles |-> Len(articles),
                   by_source |-> CountsByOccurring(articles, "source", "", {}),
                   by_category |-> CountsByFixed(articles, ReportCategories(variant),
                                                 "category", ""),
                   average_content_length |-> AverageContentLength(articles)]
    IN  CASE variant \in {"asia", "euro"} ->
               Extend(common,
                      [by_country |-> CountsByOccurring(articles, "country", "", {""}),
                       by_language |-> CountsByFixed(articles, ReportLanguages(variant),
                                                     "language", "en"),
                       scraped_at |-> now.stamp])
          [] variant = "articles" ->
               Extend(common,
                      [by_region |-> CountsByRegion(sources, articles),
                       timeframe |-> [start |-> now.stamp, end |-> now.stamp]])
          [] OTHER -> Extend(common, [scraped_at |-> now.stamp])

-----------------------------------------------------------------------------
(* The orchestrator: run() *)

\* the largest --retry value explored (the default is 3)
MaxRetry == 3

\* --retry values explored: none, one, two and MaxRetry attempts
RetryValues == {0, 1, 2, MaxRetry}

\* the source list after the filters and --sources: a prefix of the table
MaxSources == 2

\* homepages served to run() yield 0..MaxRunLinks links
MaxRunLinks == 1

\* restarts of a killed process
MaxRestarts == 1

\* --retry values explored where the process may be killed and restarted
MaxRestartRetry == 1

GoodPage ==
    [ok |-> TRUE, title_sel |-> Some(<<"B", "i", "g">>), title_generic |-> None,
     content_sel |-> Some(<<Para(<<"A", ".">>), Para(<<"B", ".">>)>>),
     content_generic |-> None, date_sel |-> None, date_generic |-> None,
     author |-> None, meta_desc |-> None]

\* no node matches the title selectors
NoTitlePage == [GoodPage EXCEPT !.title_sel = None]

\* no node matches the content selectors
NoContentPage == [GoodPage EXCEPT !.content_sel = None]

RunPages == {FailedPage, NoTitlePage, NoContentPage, GoodPage}

RunHomepages == {FailedResponse} \cup {Homepage(n, 1, 0) : n \in 0..MaxRunLinks}

\* an output path as __main__ composes it when --output is not given: it ends in
\* ".json" (for the us script, the output directory)
DefaultOutput == <<"o">> \o DotJson

\* The scraper objects: the script, --retry, the source list and the output path.  The us script is
\* run without --openai-key (openai_api_key is None), so it writes no summaries.
Configs(retries) ==
    {[variant |-> v, retry_attempts |-> n, sources |-> SubSeq(SourceTable(v), 1, k),
      output_file |-> DefaultOutput, articles |-> None] :
        v \in Variants, n \in retries, k \in 0..MaxSources}

\* the links a homepage served to a run started from __main__ may hold
MaxMainLinks == 2

\* the largest value of --sources and --articles explored
MaxLimit == 2

\* --retry values explored in the runs started from __main__
MaxMainRetry == 2

\* an argument that is not given (None), or an integer 0..MaxLimit
LimitArgs == {None} \cup {Some(n) : n \in 0..MaxLimit}

\* "if args.sources:" and "if args.articles:": the argument is given and not 0
Given(arg) == arg # None /\ arg[1] # 0

\* s[:n]
SlicePrefix(s, n) ==
    IF n >= 0 THEN SubSeq(s, 1, Min(n, Len(s)))
    ELSE SubSeq(s, 1, IF Len(s) + n > 0 THEN Len(s) + n ELSE 0)

\* "Limit sources if specified": scraper.sources[:args.sources]
main_sources(sources, arg) ==
    IF Given(arg) THEN SlicePrefix(sources, arg[1]) ELSE sources

\* "Limit articles per source if specified": the patched get_article_links returns
\* links[:args.articles]; without the patch the links are returned as they are
limited_get_article_links(arg, links) ==
    IF Given(arg) THEN SlicePrefix(links, arg[1]) ELSE links

\* __main__: the arguments --sources and --articles; one of the two is 1 while
\* the other takes every value
MainArgs ==
    {[fn |-> "main", sources |-> s, articles |-> a] :
        s \in LimitArgs, a \in {Some(1)}}
    \cup {[fn |-> "main", sources |-> s, articles |-> a] :
              s \in {Some(1)}, a \in LimitArgs}

\* the scraper object __main__ builds from the arguments
MainConfig(variant, retry, args) ==
    [variant |-> variant, retry_attempts |-> retry,
     sources |-> main_sources(SourceTable(variant), args.sources),
     output_file |-> DefaultOutput, articles |-> args.articles]

MainHomepages == {FailedResponse} \cup {Homepage(n, 1, 0) : n \in {0, MaxMainLinks}}

\* the sources of a run started from __main__ whose homepages may hold links
MaxLinkedSources == 2

\* the homepages served to run(); in a run started from __main__ the homepages of
\* the sources after the first MaxLinkedSources fail or hold no link
HomepagesServed ==
    IF call_in.fn # "main" THEN RunHomepages
    ELSE IF si <= MaxLinkedSources THEN MainHomepages
    ELSE {FailedResponse, Homepage(0, 1, 0)}

\* datetime.now(): the date, and the instant as a logical time that orders the
\* scrapes of a process and of its restarts
Now == [date |-> Date1, stamp |-> <<proc.epoch, si, li>>]

\* a file left in articles_dir by an earlier run of us-scraper
OldArticle ==
    article_data("us", Domain(USSources[1].url) \o StoryHref(0), USSources[1],
                 GoodPage, [date |-> Date1, stamp |-> <<0, 0, 0>>])

\* "if article_links:"
LinksFound(links) == links # <<>>

\* the test that appends the record and leaves the article retry loop
Accepted(variant, result) ==
    /\ result # None
    /\ CASE variant \in {"asia", "euro"} ->
              /\ result[1].title # TitleNotFound
              /\ result[1].content # ContentNotFound
         [] variant = "us" ->
              /\ result[1].title # <<>>
              /\ result[1].content # ContentNotFound
         [] OTHER -> TRUE

\* a test of the attempt number that stops sleeping one attempt early
SleepsAfterOffByOne(k, n) == k < n - 2

\* "if attempt < self.retry_attempts - 1": a failed attempt is followed by a sleep
SleepsAfter(k, n) == k < n - 1

\* a source-level backoff with the increment of the article-level one
SourceBackoffByOne(k) == 3 + k

\* time.sleep(3 + attempt * 2)
SourceBackoff(k) == 3 + k * 2

\* time.sleep(2 + attempt)
ArticleBackoff(k) == 2 + k

\* the else branch of the article retry loop: a warning, nothing appended
FailedAttempt(articles, result, k, n) == articles

\* loop describes the retry loop in progress, last_loop the one that ended in the
\* step just taken
NoLoop == [kind |-> "none"]

InitRunWith(configs) ==
    /\ cfg \in configs
    /\ pc = "source_loop"
    /\ si = 1
    /\ attempt = 0
    /\ article_links = None
    /\ li = 0
    /\ all_articles = <<>>
    /\ file = AbsentFile
    /\ report_file = None
    /\ articles_dir \in {<<>>} \cup {<<OldArticle>> : x \in {cfg.variant} \cap {"us"}}
    /\ loop = NoLoop
    /\ last_loop = NoLoop
    /\ proc = [epoch |-> 0, kill |-> "none", disk |-> <<>>]
    /\ call_in = [fn |-> "run"]
    /\ call_out = None

InitRun == InitRunWith(Configs(RetryValues))

StartLoop(kind) ==
    [kind |-> kind, calls |-> 0, sleeps |-> <<>>, acc_before |-> Len(all_articles)]

EndLoop(l, success) ==
    [kind |-> l.kind, calls |-> l.calls, sleeps |-> l.sleeps, success |-> success,
     acc_before |-> l.acc_before]

\* "for source in self.sources": the next source, or the end of the loop
NextSource ==
    /\ pc = "source_loop"
    /\ IF si > Len(cfg.sources)
       THEN /\ pc' = IF cfg.variant \in SingleFile THEN "final_save" ELSE "report"
            /\ last_loop' = NoLoop
            /\ UNCHANGED <<attempt, loop, li>>
       ELSE /\ attempt' = 0
            /\ IF cfg.retry_attempts > 0
               THEN /\ pc' = "links_retry"
                    /\ loop' = StartLoop("source")
                    /\ last_loop' = NoLoop
                    /\ UNCHANGED li
               ELSE \* range(0) is empty: no attempt, article_links is not assigned
                    /\ pc' = "article_loop"
                    /\ li' = 1
                    /\ last_loop' = EndLoop(StartLoop("source"), FALSE)
                    /\ UNCHANGED loop
    /\ UNCHANGED <<cfg, si, article_links, all_articles, file, report_file,
                   articles_dir, proc, call_in, call_out>>

\* a retry loop without the break
LoopEndsExhausted(success, k, n) == k + 1 >= n

\* a retry loop ends at "break" after a success, or when range(n) is exhausted
LoopEnds(success, k, n) == success \/ k + 1 >= n

\* one attempt of the source-level retry loop
GetLinks ==
    /\ pc = "links_retry"
    /\ \E response \in HomepagesServed :
        LET links == limited_get_article_links(
                         cfg.articles,
                         get_article_links(cfg.variant, cfg.sources[si], response))
            found == LinksFound(links)
            slept == IF ~found /\ SleepsAfter(attempt, cfg.retry_attempts)
                     THEN <<SourceBackoff(attempt)>> ELSE <<>>
            now_loop == [loop EXCEPT !.calls = @ + 1, !.sleeps = @ \o slept]
            ended == LoopEnds(found, attempt, cfg.retry_attempts)
        IN  /\ article_links' = Some(links)
            /\ loop' = IF ended THEN NoLoop ELSE now_loop
            /\ IF ended
               THEN /\ pc' = "article_loop"
                    /\ li' = 1
                    /\ attempt' = 0
                    /\ last_loop' = EndLoop(now_loop, found)
               ELSE /\ attempt' = attempt + 1
                    /\ last_loop' = NoLoop
                    /\ UNCHANGED <<pc, li>>
    /\ UNCHANGED <<cfg, si, all_articles, file, report_file, articles_dir, proc,
                   call_in, call_out>>

\* "for link in article_links": the next link (after the random delay), or the
\* end of the loop; reading article_links while it is unassigned raises
NextLink ==
    /\ pc = "article_loop"
    /\ IF article_links = None
       THEN /\ pc' = "crashed"
            /\ last_loop' = NoLoop
            /\ UNCHANGED <<si, attempt, li, loop>>
       ELSE IF li > Len(article_links[1])
       THEN /\ IF cfg.variant \in SingleFile
               THEN pc' = "checkpoint" /\ UNCHANGED si
               ELSE pc' = "source_loop" /\ si' = si + 1
            /\ last_loop' = NoLoop
            /\ UNCHANGED <<attempt, li, loop>>
       ELSE IF cfg.retry_attempts > 0
       THEN /\ pc' = "article_retry"
            /\ attempt' = 0
            /\ loop' = StartLoop("article")
            /\ last_loop' = NoLoop
            /\ UNCHANGED <<si, li>>
       ELSE /\ li' = li + 1
            /\ last_loop' = EndLoop(StartLoop("article"), FALSE)
            /\ UNCHANGED <<pc, si, attempt, loop>>
    /\ UNCHANGED <<cfg, article_links, all_articles, file, report_file,
                   articles_dir, proc, call_in, call_out>>

\* us-scraper: save_article_to_json writes the record to a file of its own (named
\* by title and time).  The exception of a failed write is caught and logged: when
\* open() raised no file is left, when the dump raised the truncated file stays.
save_article_to_json(dir, record, outcome) ==
    CASE outcome = "ok" -> Append(dir, record)
      [] outcome = "open_failed" -> dir
      [] OTHER -> Append(dir, NotJson)

\* one attempt of the article-level retry loop
ScrapeAttempt ==
    /\ pc = "article_retry"
    /\ \E resp \in RunPages, outcome \in SaveOutcomes :
        LET result == scrape_article(cfg.variant, article_links[1][li],
                                     cfg.sources[si], resp, Now)
            ok == Accepted(cfg.variant, result)
            slept == IF ~ok /\ SleepsAfter(attempt, cfg.retry_attempts)
                     THEN <<ArticleBackoff(attempt)>> ELSE <<>>
            now_loop == [loop EXCEPT !.calls = @ + 1, !.sleeps = @ \o slept]
            ended == LoopEnds(ok, attempt, cfg.retry_attempts)
        IN  /\ loop' = IF ended THEN NoLoop ELSE now_loop
            /\ IF ok /\ cfg.variant = "us"
               THEN articles_dir' = save_article_to_json(articles_dir, result[1],
                                                         outcome)
               ELSE outcome = "ok" /\ UNCHANGED articles_dir
            /\ all_articles' =
                 IF ok THEN Append(all_articles, result[1])
                 ELSE FailedAttempt(all_articles, result, attempt, cfg.retry_attempts)
            /\ IF ended
               THEN /\ pc' = "article_loop"
                    /\ li' = li + 1
                    /\ attempt' = 0
                    /\ last_loop' = EndLoop(now_loop, ok)
               ELSE /\ attempt' = attempt + 1
                    /\ last_loop' = NoLoop
                    /\ UNCHANGED <<pc, li>>
    /\ UNCHANGED <<cfg, si, article_links, file, report_file, proc, call_in, call_out>>

\* a checkpoint whose failed write ends the run
CheckpointAborting ==
    /\ pc = "checkpoint"
    /\ \E outcome \in SaveOutcomes :
           /\ file' = save_to_json(file, all_articles, outcome)
           /\ pc' = IF outcome = "ok" THEN "source_loop" ELSE "crashed"
    /\ si' = si + 1
    /\ UNCHANGED <<cfg, attempt, article_links, li, all_articles, report_file,
                   articles_dir, loop, last_loop, proc, call_in, call_out>>

\* "Save after each source": save_to_json(all_articles) at the end of the source's
\* iteration
Checkpoint ==
    /\ pc = "checkpoint"
    /\ \E outcome \in SaveOutcomes :
           file' = save_to_json(file, all_articles, outcome)
    /\ si' = si + 1
    /\ pc' = "source_loop"
    /\ UNCHANGED <<cfg, attempt, article_links, li, all_articles, report_file,
                   articles_dir, loop, last_loop, proc, call_in, call_out>>

\* "Final save with all articles"
FinalSave ==
    /\ pc = "final_save"
    /\ \E outcome \in SaveOutcomes :
           file' = save_to_json(file, all_articles, outcome)
    /\ pc' = "report"
    /\ UNCHANGED <<cfg, si, attempt, article_links, li, all_articles, report_file,
                   articles_dir, loop, last_loop, proc, call_in, call_out>>

\* what generate_report reads: the collection file (asia, euro), the files of
\* articles_dir (us), the list run() returned (scrape-articles.py's __main__);
\* None when reading raises: the collection file is absent or no JSON list, or a
\* file of articles_dir is no JSON document
ReportInput ==
    CASE cfg.variant \in {"asia", "euro"} ->
           IF file.state = "json" THEN Some(file.records) ELSE None
      [] cfg.variant = "us" ->
           IF \A i \in 1..Len(articles_dir) : articles_dir[i] # NotJson
           THEN Some(articles_dir) ELSE None
      [] OTHER -> Some(all_articles)

\* article['source'] and article['category'] of the counting loop: a record
\* without one of the two keys raises KeyError
Indexable(articles) ==
    \A i \in 1..Len(articles) : {"source", "category"} \subseteq DOMAIN articles[i]

\* scrape-articles.py: generate_report has no try block around the counting loop,
\* the KeyError leaves it
Raised == Some([raised |-> "KeyError"])

\* the files after generate_report dumped `report`: the report file, and the
\* collection file when the report path is the collection file's own path.  The
\* exception of a failed dump is caught and logged: when open() raised the file is
\* untouched, when the dump raised the file stays truncated.
WriteReport(report, outcome) ==
    LET own == /\ cfg.variant \in SingleFile
               /\ ReportPath(cfg.variant, cfg.output_file) = cfg.output_file
    IN  /\ report_file' = CASE outcome = "ok" -> Some(report)
                             [] outcome = "open_failed" -> report_file
                             [] OTHER -> Some(NotJson)
        /\ file' = CASE own /\ outcome = "ok" -> ReportInFile
                      [] own /\ outcome = "write_failed" -> PartialFile
                      [] OTHER -> file

\* what generate_report returns: the report; None when reading the articles or
\* the counting loop raised (the exception is caught and logged); Raised when the
\* counting loop of scrape-articles.py raised
ReportReturned ==
    IF ReportInput = None THEN None
    ELSE IF ~Indexable(ReportInput[1])
    THEN IF cfg.variant = "articles" THEN Raised ELSE None
    ELSE Some(Report(cfg.variant, cfg.sources, ReportInput[1], Now))

\* the effect of generate_report on the files
generate_report(outcome) ==
    IF ReportReturned \in {None, Raised}
    THEN outcome = "open_failed" /\ UNCHANGED <<report_file, file>>
    ELSE WriteReport(ReportReturned[1], outcome)

\* generate_report at the end of run() (scrape-articles.py: in __main__, on the
\* list run() returned)
GenerateReport ==
    /\ pc = "report"
    /\ \E outcome \in SaveOutcomes : generate_report(outcome)
    /\ pc' = IF ReportReturned = Raised THEN "crashed" ELSE "done"
    /\ UNCHANGED <<cfg, si, attempt, article_links, li, all_articles,
                   articles_dir, loop, last_loop, proc, call_in, call_out>>

Running == {"source_loop", "links_retry", "article_loop", "article_retry",
            "checkpoint", "final_save", "report"}

\* where a kill meets the write of the step in progress: before open(), inside
\* the dump (open() has truncated or created the file), or after the dump
KillPoints == {"before_open", "inside_dump", "after_dump"}

\* what the write has done to its file at that point: nothing, as when open()
\* raises; a truncated file, as when the dump raises; the whole document
WriteAt(point) ==
    CASE point = "before_open" -> "open_failed"
      [] point = "inside_dump" -> "write_failed"
      [] OTHER -> "ok"

\* The process is killed.  The files are left as the write of the step in
\* progress made them up to the kill: the collection file in save_to_json, the
\* report file in generate_report (the collection file when the two paths
\* coincide), the file of an accepted article in save_article_to_json, which
\* run() calls before it appends the record.  The other steps write no file.
Kill ==
    /\ pc \in Running
    /\ proc.epoch < MaxRestarts
    /\ \E point \in KillPoints :
        /\ CASE pc \in {"checkpoint", "final_save"} ->
                    /\ file' = save_to_json(file, all_articles, WriteAt(point))
                    /\ UNCHANGED <<report_file, articles_dir>>
               [] pc = "report" /\ ReportReturned \notin {None, Raised} ->
                    /\ WriteReport(ReportReturned[1], WriteAt(point))
                    /\ UNCHANGED articles_dir
               [] pc = "article_retry" /\ cfg.variant = "us" ->
                    /\ \E resp \in RunPages :
                          LET result == scrape_article(cfg.variant,
                                                       article_links[1][li],
                                                       cfg.sources[si], resp, Now)
                          IN  articles_dir' =
                                IF Accepted(cfg.variant, result)
                                THEN save_article_to_json(articles_dir, result[1],
                                                          WriteAt(point))
                                ELSE articles_dir
                    /\ UNCHANGED <<file, report_file>>
               [] OTHER ->
                    /\ point = "before_open"
                    /\ UNCHANGED <<file, report_file, articles_dir>>
        /\ proc' = [proc EXCEPT
                      !.kill = IF pc = "source_loop" /\ si > 1 /\ si <= Len(cfg.sources)
                               THEN "between_sources" ELSE "elsewhere",
                      !.disk = file'.records]
    /\ pc' = "killed"
    /\ UNCHANGED <<cfg, si, attempt, article_links, li, all_articles,
                   loop, last_loop, call_in, call_out>>

\* The process is started again with the same arguments: run() starts over
Restart ==
    /\ pc = "killed"
    /\ proc' = [proc EXCEPT !.epoch = @ + 1]
    /\ pc' = "source_loop"
    /\ si' = 1
    /\ attempt' = 0
    /\ article_links' = None
    /\ li' = 0
    /\ all_articles' = <<>>
    /\ loop' = NoLoop
    /\ last_loop' = NoLoop
    /\ UNCHANGED <<cfg, file, report_file, articles_dir, call_in, call_out>>

NextRun ==
    \/ NextSource
    \/ GetLinks
    \/ NextLink
    \/ ScrapeAttempt
    \/ Checkpoint
    \/ FinalSave
    \/ GenerateReport

Spec == InitRun /\ [][NextRun]_vars

\* run() is one sequential process: each request has timeout=15 and each sleep
\* is finite, so a step that can be taken is taken
SpecLive == InitRun /\ [][NextRun]_vars /\ WF_vars(NextRun)

\* __main__ with --sources and --articles, given or not, then run()
InitMain ==
    \E v \in Variants, n \in 1..MaxMainRetry, args \in MainArgs :
        /\ cfg = MainConfig(v, n, args)
        /\ pc = "source_loop"
        /\ si = 1
        /\ attempt = 0
        /\ article_links = None
        /\ li = 0
        /\ all_articles = <<>>
        /\ file = AbsentFile
        /\ report_file = None
        /\ articles_dir = <<>>
        /\ loop = NoLoop
        /\ last_loop = NoLoop
        /\ proc = [epoch |-> 0, kill |-> "none", disk |-> <<>>]
        /\ call_in = args
        /\ call_out = None

SpecMain == InitMain /\ [][NextRun]_vars

InitRestart == InitRunWith(Configs(1..MaxRestartRetry))

NextRestart == NextRun \/ Kill \/ Restart

SpecRestart == InitRestart /\ [][NextRestart]_vars

-----------------------------------------------------------------------------
(* generate_report called on a persisted collection, once or more *)

\* records per collection
MaxReportArticles == 2

\* calls of generate_report on the same collection
MaxReports == 2

\* --output values: the default form, a path without ".json", a path with two
OutputPaths ==
    {DefaultOutput, <<"o", "u", "t">>, <<"o">> \o DotJson \o DotJson}

\* a record no script wrote, put into the collection by hand: it has no 'source'
HandMadeRecord ==
    [category |-> "technology", country |-> "uk", language |-> "en",
     content_length |-> 2]

\* records as the four scripts write them: of different sources, categories,
\* countries and languages, with and without content
ScrapedRecords ==
    {article_data(r[1], Domain(r[2].url) \o StoryHref(1), r[2], r[3],
                  [date |-> Date1, stamp |-> <<0, 0, 0>>]) :
        r \in {<<"asia", AsiaSources[3], GoodPage>>,
               <<"euro", EuroSources[2], NoContentPage>>,
               <<"euro", EuroSources[3], GoodPage>>,
               <<"us", USSources[3], GoodPage>>,
               <<"articles", ArticleSources[2], NoTitlePage>>,
               <<"articles", ArticleSources[5], GoodPage>>}}

ReportRecords == ScrapedRecords \cup {HandMadeRecord}

RECURSIVE Collections(_)
\* the lists of at most n records
Collections(n) ==
    IF n = 0 THEN {<<>>}
    ELSE LET shorter == Collections(n - 1)
         IN  shorter \cup {Append(c, r) : c \in shorter, r \in ReportRecords}

ReportConfigs ==
    {[variant |-> v, retry_attempts |-> MaxRetry, sources |-> SourceTable(v),
      output_file |-> o] : v \in Variants, o \in OutputPaths}

\* A scraper whose collection is persisted: in the collection file (asia, euro,
\* scrape-articles, where __main__ also holds the list run() returned) or in
\* articles_dir (us).  li counts the clock readings.
InitReport ==
    /\ cfg \in ReportConfigs
    /\ \E c \in Collections(MaxReportArticles) :
        /\ file = IF cfg.variant \in SingleFile THEN JsonFile(c) ELSE AbsentFile
        /\ articles_dir = IF cfg.variant = "us" THEN c ELSE <<>>
        /\ all_articles = IF cfg.variant = "articles" THEN c ELSE <<>>
    /\ pc = "idle"
    /\ si = 0
    /\ attempt = 0
    /\ article_links = None
    /\ li = 1
    /\ report_file = None
    /\ loop = NoLoop
    /\ last_loop = NoLoop
    /\ proc = [epoch |-> 0, kill |-> "none", disk |-> <<>>]
    /\ call_in = [fn |-> "generate_report"]
    /\ call_out = <<>>

\* one call of generate_report; call_out lists the values returned so far
CallGenerateReport ==
    /\ call_in.fn = "generate_report"
    /\ Len(call_out) < MaxReports
    /\ \E outcome \in SaveOutcomes : generate_report(outcome)
    /\ call_out' = Append(call_out, ReportReturned)
    /\ li' = li + 1
    /\ UNCHANGED <<cfg, pc, si, attempt, article_links, all_articles, articles_dir,
                   loop, last_loop, proc, call_in>>

NextReport == CallGenerateReport

SpecReport == InitReport /\ [][NextReport]_vars

-----------------------------------------------------------------------------
(* The clustering tool: article-clustering-tool.py *)

\* Under SpecCluster the shared variables hold the state of one run() of
\* ArticleClusteringTool: all_articles is `articles`, file is
\* clustered_data.json, report_file is clustered_articles_report.html, and
\* call_out holds clustered_data, the number of calls of the chat-completions
\* API, what the call gave and the value run() returned.

\* the files of <input_dir>/articles explored
MaxClusterFiles == 2

\* the themes of a response explored
MaxThemes == 2

\* content[:500]
SnippetLen == 500

\* load_articles: the files json.load could read, in the order of the listing
RECURSIVE load_articles(_)
load_articles(files) ==
    IF files = <<>> THEN <<>>
    ELSE IF files[1] = None THEN load_articles(Tail(files))
    ELSE <<files[1][1]>> \o load_articles(Tail(files))

\* article.get('content', '')[:500] + "..." if article.get('content', '') else ''
ContentSnippet(article) ==
    LET content == Get(article, "content", <<>>)
    IN  IF content # <<>>
        THEN SubSeq(content, 1, Min(SnippetLen, Len(content))) \o <<".", ".", ".">>
        ELSE <<>>

\* extract_article_metadata: one metadata per article, in order
extract_article_metadata(articles) ==
    [i \in 1..Len(articles) |->
        [title |-> Get(articles[i], "title", <<>>),
         source |-> Get(articles[i], "source", ""),
         category |-> Get(articles[i], "category", ""),
         date |-> Get(articles[i], "date", <<>>),
         description |-> Get(articles[i], "description", <<>>),
         content_length |-> Get(articles[i], "content_length", 0),
         content_snippet |-> ContentSnippet(articles[i]),
         full_article |-> articles[i]]]

\* The text of a response is a sequence of chunks: the marker ```json, the marker
\* ```, a JSON document (with the value it parses to) or prose that is no JSON.
FenceJson == [kind |-> "fence_json"]

Fence == [kind |-> "fence"]

Prose == [kind |-> "prose"]

JsonChunk(value) == [kind |-> "json", value |-> value]

\* the chunks of text before the first chunk of one of `kinds`
RECURSIVE Before(_, _)
Before(text, kinds) ==
    IF text = <<>> \/ text[1].kind \in kinds THEN <<>>
    ELSE <<text[1]>> \o Before(Tail(text), kinds)

\* "if result_text.startswith("```json"): result_text = result_text.split("```json")[1]"
\* then "if "```" in result_text: result_text = result_text.split("```")[0]"
\* (the marker ```json holds the marker ```)
CleanResponse(text) ==
    LET unfenced == IF text # <<>> /\ text[1] = FenceJson
                    THEN Before(Tail(text), {"fence_json"})
                    ELSE text
    IN  Before(unfenced, {"fence", "fence_json"})

\* json.loads: the value of a text that is one JSON document, None for
\* JSONDecodeError
json_loads(text) ==
    IF Len(text) = 1 /\ text[1].kind = "json" THEN Some(text[1].value) ELSE None

\* A JSON value: an object (its members in `fields`), an array (its elements in
\* `items`), a string (its characters in `chars`) or null.
JsonObject(fields) == [type |-> "object", fields |-> fields]

JsonArray(items) == [type |-> "array", items |-> items]

JsonNull == [type |-> "null"]

JsonString(chars) == [type |-> "string", chars |-> chars]

\* a theme_data with every article, whatever the ids
ThemeArticlesAll(article_ids, article_metadata) ==
    [i \in 1..Len(article_metadata) |-> article_metadata[i].full_article]

\* "for article_id in theme.get('article_ids', [])": the full articles of the ids
\* that are indices of article_metadata
RECURSIVE ThemeArticles(_, _)
ThemeArticles(article_ids, article_metadata) ==
    IF article_ids = <<>> THEN <<>>
    ELSE LET article_id == article_ids[1]
             rest == ThemeArticles(Tail(article_ids), article_metadata)
         IN  IF 0 <= article_id /\ article_id < Len(article_metadata)
             THEN <<article_metadata[article_id + 1].full_article>> \o rest
             ELSE rest

theme_data(theme, article_metadata) ==
    [name |-> Get(theme, "name", "Unnamed Theme"),
     description |-> Get(theme, "description", ""),
     articles |-> ThemeArticles(Get(theme, "article_ids", <<>>), article_metadata)]

\* "Only add themes that have articles"
RECURSIVE ClusteredThemes(_, _)
ClusteredThemes(themes, article_metadata) ==
    IF themes = <<>> THEN <<>>
    ELSE LET data == theme_data(themes[1], article_metadata)
             rest == ClusteredThemes(Tail(themes), article_metadata)
         IN  IF data.articles # <<>> THEN <<data>> \o rest ELSE rest

\* the value of the try block around json.loads, given the parsed result:
\* result.get on a value that is no object raises; len() of a 'themes' that is
\* null raises; an array of themes is mapped; an empty object or an empty string
\* has a length and no element, so the result has no theme; the elements of
\* another object or string are strings, on which theme.get raises.  What is
\* raised ends in the outer "except Exception".
ClusteredData(result, article_metadata, now) ==
    IF result.type # "object" THEN None
    ELSE LET themes == Get(result.fields, "themes", JsonArray(<<>>))
             clustered(listed) ==
                 Some([themes |-> listed,
                       metadata |-> [total_articles |-> Len(article_metadata),
                                     clustering_timestamp |-> now]])
         IN  CASE themes.type = "array" ->
                    clustered(ClusteredThemes(themes.items, article_metadata))
               [] themes.type = "object" ->
                    IF DOMAIN themes.fields = {} THEN clustered(<<>>) ELSE None
               [] themes.type = "string" ->
                    IF themes.chars = <<>> THEN clustered(<<>>) ELSE None
               [] OTHER -> None

\* a tool that takes a response it cannot read as JSON for an empty clustering
cluster_articles_by_theme_lenient(client, article_metadata, outcome, now) ==
    IF ~client THEN None
    ELSE LET parsed == IF outcome.kind = "raises" THEN None
                       ELSE json_loads(CleanResponse(outcome.text))
         IN  IF parsed = None
             THEN ClusteredData(JsonObject([themes |-> JsonArray(<<>>)]),
                                article_metadata, now)
             ELSE ClusteredData(parsed[1], article_metadata, now)

\* cluster_articles_by_theme(article_metadata), given whether openai_client is set
\* and what the chat-completions call did: None, or the clustered data
cluster_articles_by_theme(client, article_metadata, outcome, now) ==
    IF ~client THEN None
    ELSE IF outcome.kind = "raises" THEN None
    ELSE LET parsed == json_loads(CleanResponse(outcome.text))
         IN  IF parsed = None THEN None
             ELSE ClusteredData(parsed[1], article_metadata, now)

\* whether cluster_articles_by_theme calls the API
CallsLLM(client) == client

\* what cluster_articles_by_theme got from the API: no call (no client), an
\* exception of the call, a text json.loads rejects, or the parsed `result`
LLMResult(client, outcome) ==
    IF ~client THEN [kind |-> "no_client"]
    ELSE IF outcome.kind = "raises" THEN [kind |-> "raised"]
    ELSE LET parsed == json_loads(CleanResponse(outcome.text))
         IN  IF parsed = None THEN [kind |-> "undecodable"]
             ELSE [kind |-> "parsed", result |-> parsed[1]]

\* generate_article_summaries: "Skip generating summaries as requested"
generate_article_summaries(clustered_data) == clustered_data

\* html.escape of one character
EscapeChar(c) ==
    CASE c = "&" -> <<"&", "a", "m", "p", ";">>
      [] c = "<" -> <<"&", "l", "t", ";">>
      [] c = ">" -> <<"&", "g", "t", ";">>
      [] c = "\"" -> <<"&", "q", "u", "o", "t", ";">>
      [] c = "'" -> <<"&", "#", "x", "2", "7", ";">>
      [] OTHER -> <<c>>

RECURSIVE html_escape(_)
html_escape(s) ==
    IF s = <<>> THEN <<>> ELSE EscapeChar(s[1]) \o html_escape(Tail(s))

\* the sections and article cards generate_html renders: per theme its name and
\* the escaped titles of its cards
generate_html(clustered_data) ==
    [t \in 1..Len(clustered_data.themes) |->
        [theme |-> clustered_data.themes[t].name,
         cards |-> [a \in 1..Len(clustered_data.themes[t].articles) |->
                       html_escape(Get(clustered_data.themes[t].articles[a],
                                       "title", <<>>))]]]

\* os.path.join(self.output_dir, "clustered_articles_report.html")
HtmlFile == "clustered_articles_report.html"

\* the records of <input_dir>/articles: as us-scraper.py writes them
ClusterRecords ==
    {article_data("us", Domain(r[1].url) \o StoryHref(1), r[1], r[2],
                  [date |-> Date1, stamp |-> <<0, 0, 0>>]) :
        r \in {<<USSources[1], GoodPage>>, <<USSources[3], NoContentPage>>}}

\* the files of <input_dir>/articles: a record, or None for a file json.load
\* cannot read
RECURSIVE ClusterFiles(_)
ClusterFiles(n) ==
    IF n = 0 THEN {<<>>}
    ELSE LET shorter == ClusterFiles(n - 1)
         IN  shorter \cup {Append(fs, f) : fs \in shorter,
                                           f \in {None} \cup {Some(r) : r \in ClusterRecords}}

\* the 'article_ids' of a theme: in and out of the range of the ids
ArticleIds ==
    {<<>>, <<0>>, <<1, 0>>, <<0, 0>>, <<MaxClusterFiles, -1>>, <<-1, 0, MaxClusterFiles>>}

\* the themes of a response: with and without 'article_ids', 'name', 'description'
ResponseThemes ==
    {[name |-> "ai", description |-> "d", article_ids |-> ids] : ids \in ArticleIds}
    \cup {[description |-> "d", article_ids |-> <<0>>],
          [name |-> "chips"],
          [name |-> "chips", articles |-> <<0>>]}

RECURSIVE ThemeLists(_)
ThemeLists(n) ==
    IF n = 0 THEN {<<>>}
    ELSE LET shorter == ThemeLists(n - 1)
         IN  shorter \cup {Append(ts, t) : ts \in shorter, t \in ResponseThemes}

\* the JSON documents of a response: objects with 'themes', an object without, an
\* object whose 'themes' is null, an object or a string (empty or not), and an array
JsonDocuments ==
    {JsonObject([themes |-> JsonArray(ts)]) : ts \in ThemeLists(MaxThemes)}
    \cup {JsonObject([topics |-> JsonArray(<<>>)]),
          JsonObject([themes |-> JsonNull]),
          JsonObject([themes |-> JsonObject(<<>>)]),
          JsonObject([themes |-> JsonObject([ai |-> JsonArray(<<>>)])]),
          JsonObject([themes |-> JsonString(<<>>)]),
          JsonObject([themes |-> JsonString(<<"a", "i">>)]),
          JsonArray(<<>>)}

\* the texts of a response: the bare document, the document in a ```json fence, in
\* a ``` fence, after prose, in a fence after prose, an unclosed fence, prose, nothing
ResponseTexts ==
    UNION {{<<JsonChunk(d)>>,
            <<FenceJson, JsonChunk(d), Fence>>,
            <<Fence, JsonChunk(d), Fence>>,
            <<Prose, JsonChunk(d)>>,
            <<Prose, FenceJson, JsonChunk(d), Fence>>,
            <<FenceJson, JsonChunk(d)>>} : d \in JsonDocuments}
    \cup {<<Prose>>, <<>>}

\* what the chat-completions call does: it raises, or it answers with a text
LLMOutcomes ==
    {[kind |-> "raises"]} \cup {[kind |-> "text", text |-> t] : t \in ResponseTexts}

ClusterInputs ==
    {[fn |-> "cluster_run", files |-> fs, client |-> c, now |-> <<1, 0, 0>>] :
        fs \in ClusterFiles(MaxClusterFiles), c \in BOOLEAN}


ClusterOut(clustered_data, llm_calls, llm_result, returned) ==
    [clustered_data |-> clustered_data, llm_calls |-> llm_calls,
     llm_result |-> llm_result, returned |-> returned]

InitCluster ==
    /\ call_in \in ClusterInputs
    /\ call_out = ClusterOut(None, 0, [kind |-> "none"], <<>>)
    /\ IdleRun

\* run(): load_articles, and "if not articles: return None"
LoadArticles ==
    /\ call_in.fn = "cluster_run"
    /\ pc = "idle"
    /\ all_articles' = load_articles(call_in.files)
    /\ IF all_articles' = <<>>
       THEN pc' = "done" /\ call_out' = [call_out EXCEPT !.returned = Some(None)]
       ELSE pc' = "loaded" /\ UNCHANGED call_out
    /\ UNCHANGED <<cfg, si, attempt, article_links, li, file, report_file,
                   articles_dir, loop, last_loop, proc, call_in>>

\* run(): extract_article_metadata, cluster_articles_by_theme, and
\* "if not clustered_data: return None" (a dict with its two keys is true)
ClusterArticles ==
    /\ pc = "loaded"
    /\ \E outcome \in LLMOutcomes :
        LET clustered_data ==
                cluster_articles_by_theme(call_in.client,
                                          extract_article_metadata(all_articles),
                                          outcome, call_in.now)
            calls == call_out.llm_calls + IF CallsLLM(call_in.client) THEN 1 ELSE 0
            got == LLMResult(call_in.client, outcome)
        IN  IF clustered_data = None
            THEN pc' = "done" /\ call_out' = ClusterOut(None, calls, got, Some(None))
            ELSE /\ pc' = "clustered"
                 /\ call_out' = ClusterOut(
                        Some(generate_article_summaries(clustered_data[1])), calls, got,
                        <<>>)
    /\ UNCHANGED <<cfg, si, attempt, article_links, li, all_articles, file,
                   report_file, articles_dir, loop, last_loop, proc, call_in>>

\* run(): save_clustered_data, whose failure is logged
SaveClusteredData ==
    /\ pc = "clustered"
    /\ \E outcome \in SaveOutcomes :
           file' = save_to_json(file, call_out.clustered_data[1], outcome)
    /\ pc' = "saved"
    /\ UNCHANGED <<cfg, si, attempt, article_links, li, all_articles, report_file,
                   articles_dir, loop, last_loop, proc, call_in, call_out>>

\* run(): generate_html and "return html_file": the path, or None when writing
\* the file raised (open() raised and the file is untouched, or write() raised
\* and the file stays truncated)
GenerateHtml ==
    /\ pc = "saved"
    /\ \E outcome \in SaveOutcomes :
        /\ report_file' =
              CASE outcome = "ok" -> Some(generate_html(call_out.clustered_data[1]))
                [] outcome = "open_failed" -> report_file
                [] OTHER -> Some(NotJson)
        /\ call_out' = [call_out EXCEPT
                          !.returned = Some(IF outcome = "ok" THEN Some(HtmlFile)
                                            ELSE None)]
    /\ pc' = "done"
    /\ UNCHANGED <<cfg, si, attempt, article_links, li, all_articles, file,
                   articles_dir, loop, last_loop, proc, call_in>>

NextCluster == LoadArticles \/ ClusterArticles \/ SaveClusteredData \/ GenerateHtml

SpecCluster == InitCluster /\ [][NextCluster]_vars

-----------------------------------------------------------------------------
(* Link discovery: properties, under SpecLinks *)

\* the call of get_article_links has returned
LinksReturned == call_in.fn = "get_article_links" /\ call_out # None

\* a URL with a scheme and a host
IsAbsolute(url) == DomainLen(url) > 0

\* the normalized URLs resolved from the nodes, in node order
RECURSIVE ResolvedUrls(_, _, _)
ResolvedUrls(variant, url, nodes) ==
    IF nodes = <<>> THEN <<>>
    ELSE LET found == ResolveLink(nodes[1])
             rest == ResolvedUrls(variant, url, Tail(nodes))
         IN  IF Truthy(found) THEN <<NormalizeLink(variant, found[1], url)>> \o rest
             ELSE rest

\* s with every occurrence after the first removed
FirstOccurrences(s) ==
    LET keep == {i \in 1..Len(s) : \A j \in 1..(i - 1) : s[j] # s[i]}
        RECURSIVE Pick(_)
        Pick(i) == IF i > Len(s) THEN <<>>
                   ELSE IF i \in keep THEN <<s[i]>> \o Pick(i + 1)
                   ELSE Pick(i + 1)
    IN  Pick(1)

NoRepeats(s) == \A i, j \in 1..Len(s) : i # j => s[i] # s[j]

ExaminedUrls ==
    ResolvedUrls(call_in.variant, call_in.source.url,
                 SubSeq(call_in.response.articles, 1,
                        Min(15, Len(call_in.response.articles))))

\* the request raised, or normalizing a link of an examined node raised
LinksFailed ==
    \/ ~call_in.response.ok
    \/ LinksRaise(call_in.variant, call_in.source.url,
                  Examined(call_in.response.articles))

\* C6: get_article_links returns at most 15 URLs for every source and homepage:
\* no more than one per node among the first 15 nodes the selector matched.
C6_AtMost15Links ==
    LinksReturned =>
        /\ Len(call_out[1]) <= 15
        /\ Len(call_out[1]) <= Len(call_in.response.articles)

\* a homepage with more than 15 nodes that yield different URLs: 15 are returned
C6_Witness ==
    /\ LinksReturned
    /\ Len(call_in.response.articles) > 15
    /\ NoRepeats(ResolvedUrls(call_in.variant, call_in.source.url,
                              call_in.response.articles))
    /\ Len(call_out[1]) = 15

\* C7: in every script, every URL get_article_links returns is absolute.
C7_AllLinksAbsolute ==
    LinksReturned => \A i \in 1..Len(call_out[1]) : IsAbsolute(call_out[1][i])

\* C8 as claimed: the result is the normalized URLs of the examined nodes with every
\* occurrence after the first removed (and nothing else removed).
C8_OnlyRepeatsRemoved ==
    (LinksReturned /\ ~LinksFailed) =>
        call_out[1] = FirstOccurrences(ExaminedUrls)

\* C8 as amended: the result has no repeated URL and keeps node order: it is the
\* normalized URLs of the examined nodes, without those that end in "#" in the
\* asia, euro and us scripts, with every occurrence after the first removed; it
\* is empty when the request or the parsing raised.
C8_FirstOccurrencesInOrder ==
    LinksReturned =>
        /\ NoRepeats(call_out[1])
        /\ call_out[1] =
             IF LinksFailed THEN <<>>
             ELSE FirstOccurrences(
                      SelectSeq(ExaminedUrls,
                                LAMBDA u : call_in.variant = "articles"
                                           \/ ~EndsWith(u, <<"#">>)))

\* a homepage with a repeated URL and a bare fragment, asia script
C8_Witness ==
    /\ LinksReturned
    /\ call_in.variant = "asia"
    /\ ~NoRepeats(ExaminedUrls)
    /\ \E i \in 1..Len(ExaminedUrls) : EndsWith(ExaminedUrls[i], <<"#">>)
    /\ Len(call_out[1]) >= 2

-----------------------------------------------------------------------------
(* Article extraction: properties, under SpecArticle *)

ArticleReturned == call_in.fn = "scrape_article" /\ call_out # None

\* the page was fetched and no content container matches either selector
NoContentContainer ==
    /\ call_in.response.ok
    /\ call_in.response.content_sel = None
    /\ call_in.response.content_generic = None

\* C10: when neither the source's content selector nor the generic fallback matches
\* a node, scrape_article returns a record whose content is exactly
\* "Content not found".
C10_ContentSentinel ==
    (ArticleReturned /\ NoContentContainer) =>
        /\ call_out[1] # None
        /\ call_out[1][1].content = ContentNotFound

C10_Witness ==
    /\ ArticleReturned
    /\ NoContentContainer
    /\ call_out[1] # None
    /\ call_out[1][1].title # TitleNotFound

-----------------------------------------------------------------------------
(* run(): the retry loops, under Spec *)

\* a retry loop ended in the step just taken
LoopEnded(kind) == last_loop.kind = kind

\* C3: in both retry loops of run(), with N attempts: when the operation first
\* succeeds on attempt j (1 <= j <= N) the loop has called it exactly j times and has
\* slept exactly j - 1 times, and the result of the successful call is the one used
\* (the links found are the ones iterated, the record is the one appended).
C3_SuccessAfterRetries ==
    (last_loop.kind # "none" /\ last_loop.success) =>
        /\ last_loop.calls \in 1..cfg.retry_attempts
        /\ Len(last_loop.sleeps) = last_loop.calls - 1
        /\ LoopEnded("source") =>
              /\ article_links # None
              /\ LinksFound(article_links[1])
              /\ pc = "article_loop" /\ li = 1
        /\ LoopEnded("article") =>
              /\ Len(all_articles) = last_loop.acc_before + 1
              /\ Accepted(cfg.variant, Some(all_articles[Len(all_articles)]))
              /\ all_articles[Len(all_articles)].url = article_links[1][li - 1]

\* N = 3, attempts 1 and 2 of an extraction failed and attempt 3 succeeded: two sleeps
C3_Witness ==
    /\ cfg.retry_attempts = 3
    /\ LoopEnded("article")
    /\ last_loop.success
    /\ last_loop.calls = 3
    /\ Len(last_loop.sleeps) = 2

\* C4: when all N attempts of a unit fail (link discovery found no link on every
\* attempt, or the extraction of a link was not accepted on any attempt), run()
\* adds no record for the unit and goes on: to the next link after an extraction,
\* to the end of the source's iteration after a link discovery, whose result is
\* the empty list; the run does not abort, and when it is done every source has
\* been processed.
C4_ExhaustedUnitIsSkipped ==
    /\ (last_loop.kind # "none" /\ ~last_loop.success) =>
          /\ last_loop.calls = cfg.retry_attempts
          /\ Len(all_articles) = last_loop.acc_before
          /\ pc = "article_loop"
          /\ article_links # None
          /\ LoopEnded("source") => article_links[1] = <<>> /\ li = 1
          /\ LoopEnded("article") => li \in 2..(Len(article_links[1]) + 1)
    /\ pc # "crashed"
    /\ pc \in {"final_save", "report", "done"} => si = Len(cfg.sources) + 1

\* C5: in every script, a record run() accepts (appends to the accumulator, ending
\* the retries of the link) has a title other than "Title not found" and a content
\* other than "Content not found".
C5_AcceptedRecordsBearNoSentinel ==
    \A i \in 1..Len(all_articles) :
        /\ all_articles[i].title # TitleNotFound
        /\ all_articles[i].content # ContentNotFound

\* content_length is the length of content, for every record of a collection
\* a file of articles_dir that holds a record
IsRecord(f) == f # NotJson

LengthsAgree(articles) ==
    \A i \in 1..Len(articles) :
        articles[i].content_length = Len(articles[i].content)

\* C9: every record scrape_article produced has content_length = len(content): the
\* records of the accumulator, of the persisted collection file, and of the
\* per-article files of the us script.
C9_ContentLengthIsLength ==
    /\ LengthsAgree(all_articles)
    /\ LengthsAgree(file.records)
    /\ LengthsAgree(SelectSeq(articles_dir, IsRecord))

\* a persisted collection with a record whose content is the sentinel and one whose
\* content was extracted
C9_Witness ==
    /\ file.state = "json"
    /\ \E i, j \in 1..Len(file.records) :
          /\ file.records[i].content = ContentNotFound
          /\ file.records[i].content_length = 17
          /\ file.records[j].content # ContentNotFound
          /\ file.records[j].content_length > 0

-----------------------------------------------------------------------------
(* run(): persistence across an interruption, under SpecRestart *)

\* the records of `articles` that come from the first k sources, in order
RecordsOfSources(articles, k) ==
    SelectSeq(articles,
              LAMBDA r : r.source \in {cfg.sources[i].name : i \in 1..k})

IsPrefix(s, t) == Len(s) <= Len(t) /\ SubSeq(t, 1, Len(s)) = s

HoldsRecord(articles, r) == \E i \in 1..Len(articles) : articles[i] = r

\* C1: in the scripts with one collection file, when run() is interrupted after
\* source k finished and before source k+1 finished, the file holds every record
\* accepted from sources 1..k, in accumulator order.
C1_InterruptedRunKeepsFinishedSources ==
    (cfg.variant \in SingleFile /\ pc = "killed" /\ proc.epoch = 0) =>
        IsPrefix(RecordsOfSources(all_articles, si - 1), file.records)

\* C2: when the process is killed between two sources and started again with the
\* same output path, after a later checkpoint of the restarted run the file still
\* holds every record it held at the kill.
C2_RestartKeepsPersistedRecords ==
    (/\ cfg.variant \in SingleFile
     /\ proc.epoch >= 1
     /\ proc.kill = "between_sources"
     /\ si > 1
     /\ file.state = "json") =>
        \A i \in 1..Len(proc.disk) : HoldsRecord(file.records, proc.disk[i])

-----------------------------------------------------------------------------
(* Article extraction: content, title, date and author, under SpecArticle *)

\* the content container scrape_article found: the source selector's, else the
\* generic selector's
ContentContainer == TwoTier(call_in.response.content_sel, call_in.response.content_generic)

ContainerFound == call_in.response.ok /\ ContentContainer # None

\* the container of three paragraphs "A.", "B.", "C."
ThreeParagraphs ==
    <<Para(<<"A", ".">>), Para(<<"U+00A0", "B", ".", "\r", "\n">>), Para(<<"C", ".">>)>>

\* C11: when a content container is found, content is the (stripped) texts of its
\* paragraph nodes joined with a single space, and the container's raw text is used
\* only when the container has no paragraph node; three paragraphs "A.", "B.",
\* "C." give content "A. B. C." with content_length 8.
C11_RawTextOnlyWithoutParagraphs ==
    (ArticleReturned /\ ContainerFound) =>
        LET texts == ParagraphTexts(ContentContainer[1])
            record == call_out[1][1]
        IN  /\ record.content =
                  IF texts = <<>> THEN Strip(RawText(ContentContainer[1]))
                  ELSE Join(<<" ">>, texts)
            /\ ContentContainer[1] = ThreeParagraphs =>
                  /\ record.content = <<"A", ".", " ", "B", ".", " ", "C", ".">>
                  /\ record.content_length = 8

\* the record scrape_article would return for the same call at clock reading d
RecordAtDate(d) ==
    article_data(call_in.variant, call_in.url, call_in.source, call_in.response,
                 [call_in.now EXCEPT !.date = d])

\* C12: for each of title, date and author, when no selector matches, the field
\* of the record is a fixed sentinel string: "Title not found", "Author not found",
\* and for the date a string that is the same whenever the article is scraped.
C12_SentinelWhenNoMatch ==
    (ArticleReturned /\ call_in.response.ok) =>
        LET resp == call_in.response
            record == call_out[1][1]
        IN  /\ TwoTier(resp.title_sel, resp.title_generic) = None =>
                  record.title = TitleNotFound
            /\ resp.author = None => record.author = AuthorNotFound
            /\ TwoTier(resp.date_sel, resp.date_generic) = None =>
                  \A d \in {Date1, Date2} : RecordAtDate(d).date = record.date

-----------------------------------------------------------------------------
(* run() and the report, under Spec *)

\* run() and the report that follows it have ended
RunDone == pc = "done"

\* the report file holds a report
ReportWritten == report_file # None /\ report_file[1] # NotJson

\* C13: with an empty source list the run completes without error; where the
\* script keeps a collection file and the final save succeeds, the file holds the
\* empty collection; and the report that is written has total_articles = 0 and
\* average_content_length = 0 (the quotient 0/1, no division by zero).
C13_EmptySourceList ==
    (cfg.sources = <<>> /\ call_in.fn = "run") =>
        /\ pc # "crashed"
        /\ all_articles = <<>>
        /\ (RunDone /\ file.state = "json") => file.records = <<>>
        /\ (RunDone /\ ReportWritten) =>
              /\ report_file[1].total_articles = 0
              /\ report_file[1].average_content_length = <<0, 1>>

-----------------------------------------------------------------------------
(* generate_report: properties, under SpecReport *)

ReportCalls == IF call_in.fn = "generate_report" THEN Len(call_out) ELSE 0

\* a report without its timestamp field
WithoutTimestamp(report) ==
    [k \in DOMAIN report \ {"scraped_at", "timeframe"} |-> report[k]]

\* two calls returned the same report up to the timestamp
SameReport(a, b) ==
    \/ a = None /\ b = None
    \/ a # None /\ b # None /\ WithoutTimestamp(a[1]) = WithoutTimestamp(b[1])

\* C14: generate_report run twice on the same persisted collection, with no
\* scraping in between, gives the same report in every field except the
\* timestamp: the first run leaves what the second reads as it was.
C14_ReportIdempotent ==
    \A i, j \in 1..ReportCalls : SameReport(call_out[i], call_out[j])

\* the report generate_report wrote went to a path other than the collection's
ReportBesideCollection ==
    ReportPath(cfg.variant, cfg.output_file) # cfg.output_file

\* C15: for every output path, generate_report writes the report to a file
\* different from the article collection file, and the persisted collection
\* (the file, or the directory of record files) is the same after the call.
C15_ReportLeavesCollection ==
    [][CallGenerateReport =>
          /\ file' = file
          /\ articles_dir' = articles_dir
          /\ (report_file' # report_file => ReportBesideCollection)]_vars

\* what the last call of generate_report returned
LastReport == call_out'[Len(call_out')]

\* the last call of generate_report returned a report: the collection was read
\* and every record of it has 'source' and 'category'
Reported == LastReport # None /\ LastReport # Raised

\* the records of `articles` that carry `value` in `field`
Carrying(articles, field, value) ==
    {i \in 1..Len(articles) :
        field \in DOMAIN articles[i] /\ articles[i][field] = value}

\* the sum of the counts of a table
RECURSIVE SumOf(_, _)
SumOf(table, keys) ==
    IF keys = {} THEN 0
    ELSE LET k == CHOOSE k \in keys : TRUE
         IN  table[k] + SumOf(table, keys \ {k})

\* total, per-source and per-category counts of `report` over `articles`
CountsOf(report, articles) ==
    /\ report.total_articles = Len(articles)
    /\ \A s \in DOMAIN report.by_source :
          report.by_source[s] = Cardinality(Carrying(articles, "source", s))
    /\ \A i \in 1..Len(articles) : articles[i].source \in DOMAIN report.by_source
    /\ SumOf(report.by_source, DOMAIN report.by_source) = report.total_articles
    /\ DOMAIN report.by_category = ReportCategories(cfg.variant)
    /\ \A c \in DOMAIN report.by_category :
          report.by_category[c] = Cardinality(Carrying(articles, "category", c))
    /\ "by_language" \in DOMAIN report =>
          DOMAIN report.by_language = ReportLanguages(cfg.variant)

\* each language key counts the records that carry that language
LanguagesCarried(report, articles) ==
    "by_language" \in DOMAIN report =>
        \A l \in DOMAIN report.by_language :
            report.by_language[l] = Cardinality(Carrying(articles, "language", l))

\* each language key counts the records that carry that language, and "en"
\* also the records that carry no language
LanguagesOrDefault(report, articles) ==
    "by_language" \in DOMAIN report =>
        \A l \in DOMAIN report.by_language :
            report.by_language[l] =
                Cardinality(Carrying(articles, "language", l)
                            \cup IF l = "en"
                                 THEN {i \in 1..Len(articles) :
                                          "language" \notin DOMAIN articles[i]}
                                 ELSE {})

\* C16 as stated: total_articles is the number of records, by_source sums to it
\* with each source counting its records, by_category and by_language hold only
\* the fixed keys, each counting exactly the records with that value.
C16_CountsExact ==
    [][(CallGenerateReport /\ Reported) =>
          /\ CountsOf(LastReport[1], ReportInput[1])
          /\ LanguagesCarried(LastReport[1], ReportInput[1])]_vars

\* C16: total_articles is the number of records, by_source sums to it with each
\* source counting its records, by_category and by_language hold only the fixed
\* keys; a category key counts the records with that category, a language key
\* the records with that language, and "en" also the records with no language.
C16_CountsWithDefaultLanguage ==
    [][(CallGenerateReport /\ Reported) =>
          /\ CountsOf(LastReport[1], ReportInput[1])
          /\ LanguagesOrDefault(LastReport[1], ReportInput[1])]_vars

\* a report was returned for a collection that holds a record of a category
\* outside the fixed keys, a record without language and one with a language
C16_Witness ==
    /\ ReportCalls = 1
    /\ call_out[1] # None
    /\ "by_language" \in DOMAIN call_out[1][1]
    /\ ReportInput # None
    /\ Len(ReportInput[1]) = 2
    /\ call_out[1][1].total_articles = 2
    /\ \E i, j \in 1..2 :
          /\ ReportInput[1][i].category \notin ReportCategories(cfg.variant)
          /\ "language" \notin DOMAIN ReportInput[1][i]
          /\ "language" \in DOMAIN ReportInput[1][j]
          /\ ReportInput[1][j].language # "en"

-----------------------------------------------------------------------------
(* Checkpoints: properties, under Spec *)

\* the write of this step did not put the accumulator into the file
WriteFailed == file' # JsonFile(all_articles)

\* C17: when a checkpoint write fails, run() does not abort and the accumulator
\* is unchanged (and never loses a record afterwards), so the next checkpoint
\* that succeeds persists every record accepted so far, the records of the
\* source whose checkpoint failed among them.
C17_FailedCheckpointKeepsAccumulator ==
    [][/\ IsPrefix(all_articles, all_articles')
       /\ (Checkpoint /\ WriteFailed) =>
             /\ all_articles' = all_articles
             /\ pc' = "source_loop"
             /\ si' = si + 1
       /\ ((Checkpoint \/ FinalSave) /\ ~WriteFailed) =>
             /\ file'.state = "json"
             /\ file'.records = all_articles'
             /\ \A k \in 1..Len(cfg.sources) :
                   IsPrefix(RecordsOfSources(all_articles', k), file'.records)]_vars

\* the checkpoint of the first source failed halfway with a record accepted, and
\* run() is at the second source with the record in the accumulator
C17_Witness ==
    /\ pc = "source_loop"
    /\ si = 2
    /\ Len(cfg.sources) = 2
    /\ file.state = "partial"
    /\ Len(all_articles) = 1
    /\ all_articles[1].source = cfg.sources[1].name

-----------------------------------------------------------------------------
(* Backoff: properties, under Spec *)

\* the seconds the claim gives for the sleep after failed attempt k (0-based)
BackoffSeconds(kind, k) == IF kind = "source" THEN 3 + 2 * k ELSE 2 + k

\* the sleeps of a retry loop are those of its failed attempts 0, 1, ... in order
SleepsOf(l) ==
    \A i \in 1..Len(l.sleeps) : l.sleeps[i] = BackoffSeconds(l.kind, i - 1)

\* C20: after a failed attempt with 0-based index k that is not the last one,
\* run() sleeps 3 + 2k seconds in the source-level loop and 2 + k seconds in the
\* article-level loop before the next attempt; after the last attempt
\* (k = N - 1) it does not sleep.
C20_BackoffSchedule ==
    /\ loop.kind # "none" =>
          /\ SleepsOf(loop)
          /\ loop.calls = attempt
          /\ Len(loop.sleeps) = loop.calls
          /\ loop.calls < cfg.retry_attempts
    /\ (last_loop.kind # "none" /\ last_loop.calls >= 1) =>
          /\ SleepsOf(last_loop)
          /\ Len(last_loop.sleeps) = last_loop.calls - 1
          /\ ~last_loop.success => last_loop.calls = cfg.retry_attempts

\* N = 3 and link discovery failed three times: sleeps of 3 and 5 seconds after
\* attempts 0 and 1, none after attempt 2
C20_Witness ==
    /\ cfg.retry_attempts = 3
    /\ LoopEnded("source")
    /\ ~last_loop.success
    /\ last_loop.calls = 3
    /\ last_loop.sleeps = <<3, 5>>

-----------------------------------------------------------------------------
(* The clustering tool: properties, under SpecCluster *)

ClusterRun == call_in.fn = "cluster_run"

\* a parsed response without the expected keys: no object, no 'themes', a
\* 'themes' that is no array, or a theme without 'article_ids'
MissingKeys(result) ==
    \/ result.type # "object"
    \/ "themes" \notin DOMAIN result.fields
    \/ result.fields.themes.type # "array"
    \/ \E t \in 1..Len(result.fields.themes.items) :
          "article_ids" \notin DOMAIN result.fields.themes.items[t]

MalformedResponse ==
    \/ call_out.llm_result.kind = "undecodable"
    \/ call_out.llm_result.kind = "parsed" /\ MissingKeys(call_out.llm_result.result)

\* nothing was clustered and nothing was written
NoClusteringOutput ==
    /\ call_out.clustered_data = None
    /\ file = AbsentFile
    /\ report_file = None
    /\ pc = "done"
    /\ call_out.returned = Some(None)

\* C18: a response that is not JSON, or JSON without the expected keys (no
\* "themes", or themes without "article_ids"), is a total clustering failure:
\* cluster_articles_by_theme returns None and run() writes neither
\* clustered_data.json nor the HTML report, rather than a partial result.
C18_MalformedResponseIsTotalFailure ==
    (ClusterRun /\ MalformedResponse) => NoClusteringOutput

\* C19: when the LLM call raises or no client is configured,
\* cluster_articles_by_theme returns None and run() returns None without writing
\* clustered_data.json or the HTML file; when no article is loaded, run() returns
\* None before any LLM call.
C19_CollaboratorFailure ==
    ClusterRun =>
        /\ call_out.llm_result.kind \in {"raised", "no_client"} => NoClusteringOutput
        /\ call_out.llm_result.kind = "no_client" => call_out.llm_calls = 0
        /\ (pc # "idle" /\ all_articles = <<>>) =>
              /\ NoClusteringOutput
              /\ call_out.llm_calls = 0
              /\ call_out.llm_result.kind = "none"

\* the LLM call raised in a run that had loaded two articles and run() returned
C19_Witness ==
    /\ ClusterRun
    /\ Len(all_articles) = 2
    /\ call_out.llm_result.kind = "raised"
    /\ call_out.llm_calls = 1
    /\ call_out.returned = Some(None)

-----------------------------------------------------------------------------
(* Link discovery: requests and failures, under SpecLinks *)

\* the positions of a call that has not returned
LinksInProgress == {"idle", "links_parse", "links_except"}

\* C21: one call of get_article_links issues exactly one homepage request; on a
\* request or parse exception it returns the empty list (it returns, nothing is
\* raised to the caller) and has not asked again.
C21_OneRequestEmptyOnFailure ==
    call_in.fn = "get_article_links" =>
        /\ li = IF pc = "idle" THEN 0 ELSE 1
        /\ IF call_out = None THEN pc \in LinksInProgress ELSE pc = "links_returned"
        /\ pc = "links_except" => LinksFailed
        /\ LinksReturned =>
              /\ LinksFailed => call_out[1] = <<>>
              /\ ~LinksFailed =>
                    call_out[1] = get_article_links(call_in.variant, call_in.source,
                                                    call_in.response)

\* the request was answered and the first node gave an absolute link, then the
\* parsing raised at a later node: the call returned the empty list after one
\* request
C21_Witness ==
    /\ LinksReturned
    /\ call_in.response.ok
    /\ Len(call_in.response.articles) >= 2
    /\ Truthy(ResolveLink(call_in.response.articles[1]))
    /\ StartsWith(ResolveLink(call_in.response.articles[1])[1], HttpPrefix)
    /\ LinksRaise(call_in.variant, call_in.source.url,
                  Examined(call_in.response.articles))
    /\ call_out[1] = <<>>
    /\ li = 1

-----------------------------------------------------------------------------
(* Article extraction: the language tag, under SpecArticle *)

\* a record was returned that carries a language tag
TaggedRecord ==
    /\ ArticleReturned
    /\ call_out[1] # None
    /\ "language" \in DOMAIN call_out[1][1]

SourceCountry == CountryOr(call_in.source, "")

\* the table of the claim: japan, china and south_korea, every other country en
ClaimedLanguage(country) ==
    CASE country = "japan" -> "ja"
      [] country = "china" -> "zh"
      [] country = "south_korea" -> "ko"
      [] OTHER -> "en"

\* the table of euro-scraper.py: germany, france and spain, every other country en
EuropeanLanguage(country) ==
    CASE country = "germany" -> "de"
      [] country = "france" -> "fr"
      [] country = "spain" -> "es"
      [] OTHER -> "en"

\* C22 as stated: the language tag is the one the table japan -> ja, china -> zh,
\* south_korea -> ko, every other or missing country -> en gives for the country
\* of the source, whatever the page.
C22_LanguageByAsianTable ==
    TaggedRecord => call_out[1][1].language = ClaimedLanguage(SourceCountry)

\* C22: the language tag of a record is a function of the script and of the
\* source's country only, whatever the page: in asia-scraper.py japan gives ja,
\* china zh, south_korea ko and every other country en; in euro-scraper.py
\* germany gives de, france fr, spain es and every other country en; the records
\* of us-scraper.py and scrape-articles.py carry no language tag.
C22_LanguageByCountry ==
    /\ TaggedRecord =>
          /\ call_in.variant \in {"asia", "euro"}
          /\ call_out[1][1].language =
                IF call_in.variant = "asia" THEN ClaimedLanguage(SourceCountry)
                ELSE EuropeanLanguage(SourceCountry)
    /\ (ArticleReturned /\ call_out[1] # None /\ call_in.variant \in {"asia", "euro"})
          => "language" \in DOMAIN call_out[1][1]

\* a record of the source of spain, scraped by euro-scraper.py from a page
\* without content: its tag is es
C22_Witness ==
    /\ TaggedRecord
    /\ call_in.variant = "euro"
    /\ SourceCountry = "spain"
    /\ NoContentContainer
    /\ call_out[1][1].language = "es"

\* C23: in every script, get_article_links rejects a resolved URL that ends in
\* "#" as well as one already collected in this call: no returned URL ends in "#"
\* and none is returned twice.
C23_NoFragmentNoRepeat ==
    LinksReturned =>
        /\ \A i \in 1..Len(call_out[1]) : ~EndsWith(call_out[1][i], <<"#">>)
        /\ NoRepeats(call_out[1])

-----------------------------------------------------------------------------
(* run(): the links of the article loop, under Spec *)

\* the links are of the source: URLs on the host of its homepage
LinksOfSource(links, source) ==
    \A i \in 1..Len(links) : StartsWith(links[i], Domain(source.url))

\* C24: for every retry count N >= 0 and every source, the article loop of run()
\* iterates only over the links that link discovery returned for that source in
\* this iteration: it never reads an unassigned article_links (the run does not
\* end in a NameError) and never the links of an earlier source.
C24_ArticleLoopReadsOwnLinks ==
    /\ pc # "crashed"
    /\ pc \in {"article_loop", "article_retry"} =>
          /\ article_links # None
          /\ LinksOfSource(article_links[1], cfg.sources[si])

-----------------------------------------------------------------------------
(* run() started from __main__: the accumulator and the limits, under SpecMain *)

UrlsOf(articles) == [i \in 1..Len(articles) |-> articles[i].url]

\* s is t with some elements left out
RECURSIVE IsSubsequence(_, _)
IsSubsequence(s, t) ==
    IF s = <<>> THEN TRUE
    ELSE IF t = <<>> THEN FALSE
    ELSE IF s[1] = t[1] THEN IsSubsequence(Tail(s), Tail(t))
    ELSE IsSubsequence(s, Tail(t))

\* the index of the source of a record in the source list
SourceIndex(record) == CHOOSE k \in 1..Len(cfg.sources) : cfg.sources[k].name = record.source

\* no link has two records, the records are in source order, and those of the
\* source in progress are records of the links already passed, in link order
AccumulatorInOrder ==
    /\ NoRepeats(UrlsOf(all_articles))
    /\ \A i, j \in 1..Len(all_articles) :
          i < j => SourceIndex(all_articles[i]) <= SourceIndex(all_articles[j])
    /\ \A i \in 1..Len(all_articles) : SourceIndex(all_articles[i]) <= si
    /\ (pc \in {"article_loop", "article_retry"} /\ article_links # None) =>
          IsSubsequence(
              UrlsOf(SelectSeq(all_articles,
                               LAMBDA r : r.source = cfg.sources[si].name)),
              SubSeq(article_links[1], 1, li - 1))

\* C25: the accumulator of run() is append-only and each discovered link
\* contributes at most one record: after a link's record is appended no further
\* attempt is made for the link, so there are never more records than links
\* passed, and the records are in source order, then link order.
C25_AppendOnlyOneRecordPerLink ==
    [][/\ IsPrefix(all_articles, all_articles')
       /\ Len(all_articles') <= Len(all_articles) + 1
       /\ Len(all_articles') = Len(all_articles) + 1 =>
             /\ pc = "article_retry"
             /\ pc' = "article_loop"
             /\ li' = li + 1
             /\ all_articles'[Len(all_articles')].url = article_links[1][li]
       /\ AccumulatorInOrder']_vars

\* two attempts per link: both links of a source have their record, the second
\* one from the second attempt
C25_Witness ==
    /\ call_in.fn = "main"
    /\ cfg.retry_attempts = 2
    /\ pc = "article_loop"
    /\ article_links # None
    /\ Len(article_links[1]) = 2
    /\ li = 3
    /\ Len(all_articles) = 2
    /\ LoopEnded("article")
    /\ last_loop.calls = 2
    /\ last_loop.success

\* run() is processing a source: its link discovery or its article loop is under way
ProcessingSource == pc \in {"links_retry", "article_loop", "article_retry"}

\* C27: when --articles n is given, for any n >= 0, every source contributes at
\* most n links to extraction, and when --sources n is given, at most n sources
\* are processed.
C27_LimitsApplyWhenGiven ==
    /\ (cfg.articles # None /\ pc \in {"article_loop", "article_retry"}) =>
          /\ article_links # None
          /\ Len(article_links[1]) <= cfg.articles[1]
    /\ (call_in.sources # None /\ ProcessingSource) => si <= call_in.sources[1]

-----------------------------------------------------------------------------
(* run(): the report against the accumulator, under Spec *)

\* run() returned and generate_report left a report on disk
ReportOfRun == pc = "done" /\ ReportWritten

\* C28: in the per-article-file (US) variant the report written at the end of
\* run() describes exactly the records accepted in that run: its total_articles
\* equals the count run() returns, also when the articles directory held files of
\* an earlier run and when saving an accepted article's file failed.
C28_UsReportCountsAccepted ==
    (cfg.variant = "us" /\ ReportOfRun) =>
        report_file[1].total_articles = Len(all_articles)

\* C29: in the asia and euro scrapers the report generated at the end of run()
\* reflects the final accumulator: its total_articles equals the number of records
\* run() returns, also when the final save of the collection failed after an
\* earlier checkpoint had succeeded.
C29_ReportReflectsAccumulator ==
    (cfg.variant \in {"asia", "euro"} /\ ReportOfRun) =>
        report_file[1].total_articles = Len(all_articles)

-----------------------------------------------------------------------------
(* The clustering tool: the themes of the result, under SpecCluster *)

\* cluster_articles_by_theme returned a clustering result
Clustered == ClusterRun /\ call_out.clustered_data # None

\* the themes of the response the result was built from
ThemesAnswered ==
    LET themes == Get(call_out.llm_result.result.fields, "themes", JsonArray(<<>>))
    IN  IF themes.type = "array" THEN themes.items ELSE <<>>

\* the ids of a theme of the response that are indices 0..n-1, in the theme's order
IdsInRange(theme, n) ==
    LET InRange(id) == id \in 0..(n - 1)
    IN  SelectSeq(Get(theme, "article_ids", <<>>), InRange)

\* the themes of the response that name an id in 0..n-1, in the response's order
ThemesWithArticles(themes, n) ==
    LET Named(theme) == IdsInRange(theme, n) # <<>>
    IN  SelectSeq(themes, Named)

\* C30: in the clustering result every article listed under a theme is the input
\* article at an index 0..n-1 named in that theme's article_ids; ids outside that
\* range are dropped, a theme left with no article is omitted, and
\* metadata.total_articles is the number of input articles, whether or not each
\* was assigned to a theme.
C30_ThemesListInputArticles ==
    Clustered =>
        LET data == call_out.clustered_data[1]
            n == Len(all_articles)
            kept == ThemesWithArticles(ThemesAnswered, n)
        IN  /\ data.metadata.total_articles = n
            /\ Len(data.themes) = Len(kept)
            /\ \A t \in 1..Len(data.themes) :
                 LET ids == IdsInRange(kept[t], n)
                 IN  /\ data.themes[t].articles # <<>>
                     /\ Len(data.themes[t].articles) = Len(ids)
                     /\ \A a \in 1..Len(ids) :
                          data.themes[t].articles[a] = all_articles[ids[a] + 1]

\* two input articles and a response of two themes: one names ids out of range
\* and article 0 and is kept with that one article, the other names no id in range
\* and is omitted; article 1 is under no theme and is counted all the same
C30_Witness ==
    /\ Clustered
    /\ Len(all_articles) = MaxClusterFiles
    /\ Len(ThemesAnswered) = 2
    /\ \E t \in 1..2 :
          Get(ThemesAnswered[t], "article_ids", <<>>) = <<-1, 0, MaxClusterFiles>>
    /\ Len(call_out.clustered_data[1].themes) = 1
    /\ call_out.clustered_data[1].themes[1].articles = <<all_articles[1]>>
    /\ call_out.clustered_data[1].metadata.total_articles = MaxClusterFiles

-----------------------------------------------------------------------------
(* run(): termination, under SpecLive *)

\* the calls of a retry loop, in progress or just ended, are at most N
CallsBounded ==
    /\ loop.kind # "none" => loop.calls <= cfg.retry_attempts
    /\ last_loop.kind # "none" => last_loop.calls <= cfg.retry_attempts

\* C26: run() always terminates: for each source it calls link discovery at most
\* N times, for each discovered link it calls extraction at most N times, and it
\* reaches the final save (where the script keeps one collection file) and the
\* report after the last source, whatever the outcomes of the individual fetches.
C26_RunReachesFinalSaveAndReport ==
    /\ []CallsBounded
    /\ cfg.variant \in SingleFile => <>(pc = "final_save")
    /\ <>(pc = "done")

====
